---- MODULE Spec2Model ----
(***************************************************************************)
(* Model of the asynchronous process framework of tom_education:           *)
(* AsyncProcess (models.py), PipelineProcess (models/pipelines.py) and the *)
(* job wrappers send_task / run_pipeline / run_process (tasks.py).         *)
(*                                                                         *)
(* One process record is followed through its life: the caller that        *)
(* created it submits it with send_task, a worker loads it by primary key  *)
(* and executes run_process -> run() step by step.  `db` is the persisted  *)
(* row, `proc` the worker's in-memory instance, `cproc` the instance held  *)
(* by the caller of send_task.                                             *)
(***************************************************************************)
EXTENDS Integers, Sequences, FiniteSets, TLC

(***************************************************************************)
(* Bounds of the model.                                                    *)
(***************************************************************************)
MaxClock == 2          \* datetime.now() returns the values 1..MaxClock
MaxRuns == 2           \* deliveries of the job to a worker
MaxWorkSteps == 1      \* saves made by the work method, over all runs
MaxInputs == 2         \* input files of the process
MaxOutputs == 2        \* descriptors returned by the work method, over all runs
MaxLogs == 2           \* saves made by a work method that logs, over all runs
MaxFlags == 2          \* entries of a flags dictionary
MaxFrames == 3         \* frames of a timelapse
MaxSide == 10          \* rows and columns of an image
MaxProcesses == 2      \* AutovarProcess rows run by one worker
MaxTargets == 2        \* targets with new data in one run of the alerts command

(***************************************************************************)
(* Program constants.                                                      *)
(***************************************************************************)
ASYNC_STATUS_PENDING == "pending"
ASYNC_STATUS_CREATED == "created"
ASYNC_STATUS_FAILED == "failed"
ASYNC_TERMINAL_STATES == {ASYNC_STATUS_CREATED, ASYNC_STATUS_FAILED}
STATUS_CHOICES == {ASYNC_STATUS_PENDING, ASYNC_STATUS_CREATED, ASYNC_STATUS_FAILED}
FailureMessageMaxLength == 255

\* NULL of a nullable timestamp or foreign key; clock values and primary keys
\* start at 1.
Null == 0
\* logs is a nullable text field: <<>> is None, <<s>> is the text s.
NoLogs == <<>>

MsgNoTarget == "Process must have an associated target"
MsgNoInput == "No input files to process"
MsgSubmitFailed == "Failed to submit job"

(***************************************************************************)
(* Strings.                                                                *)
(***************************************************************************)
\* str.endswith
endswith(s, suffix) ==
    /\ Len(suffix) <= Len(s)
    /\ SubSeq(s, Len(s) - Len(suffix) + 1, Len(s)) = suffix

\* `sub in s`
contains(s, sub) ==
    \E i \in 1..(Len(s) - Len(sub) + 1) : SubSeq(s, i, i + Len(sub) - 1) = sub

\* os.path.basename: what follows the last '/'
basename(path) ==
    LET slashes == {i \in 1..Len(path) : SubSeq(path, i, i) = "/"}
        last == IF slashes = {} THEN 0
                ELSE CHOOSE i \in slashes : \A j \in slashes : j <= i
    IN SubSeq(path, last + 1, Len(path))

\* ', '.join(seq)
RECURSIVE join(_)
join(seq) ==
    IF seq = <<>> THEN ""
    ELSE IF Len(seq) = 1 THEN seq[1]
    ELSE seq[1] \o ", " \o join(Tail(seq))


RECURSIVE repeat(_, _)
\* s * n
repeat(s, n) ==
    IF n = 0 THEN ""
    ELSE IF n % 2 = 0 THEN LET half == repeat(s, n \div 2) IN half \o half
    ELSE s \o repeat(s, n - 1)

(***************************************************************************)
(* Inputs of the model.                                                    *)
(***************************************************************************)
ProcessIdentifier == "someprocess"
TargetPk == 1
\* statuses given to update_status: a progress label, and 'pending'
ProgressLabel == "Finding stars"
StatusValues == {ASYNC_STATUS_PENDING, ProgressLabel}
\* messages carried by an AsyncError raised in the work method
WorkMessages ==
    {"could not find observation date", "",
     repeat("x", FailureMessageMaxLength + 1)}
LogMessages == {"doing the thing"}
\* allowed_suffixes of the pipeline class: <<>> is None (not declared), <<l>>
\* is the declared list l
NotDeclared == <<>>
\* files the work method leaves in its workspace: the i-th output is the
\* i-th path, relative to the workspace
OutputPaths == <<"file1.csv", "plots/file2.hs", "file3.png">>

\* path.read_bytes() / path.read_text()
read(path) == "content of " \o path

SeqsUpTo(S, n) == UNION {[1..k -> S] : k \in 0..n}

\* the forms in which a work method may give its i-th output
DescriptorsAt(i) ==
    LET p == OutputPaths[((i - 1) % Len(OutputPaths)) + 1] IN
    {[form |-> "tuple", items |-> <<p, "DataProduct">>],
     [form |-> "tuple", items |-> <<p, "ReducedDatum", "image_file">>],
     [form |-> "PipelineOutput", items |-> <<p, "DataProduct", "image_file">>],
     [form |-> "tuple", items |-> <<p, "cheese", "sometag">>]}

OutputLists ==
    UNION {{o \in [1..k -> UNION {DescriptorsAt(i) : i \in 1..k}] :
                \A i \in 1..k : o[i] \in DescriptorsAt(i)}
           : k \in 0..MaxOutputs}

(***************************************************************************)
(* AsyncProcess: validation and persistence.                               *)
(***************************************************************************)
\* Model.clean_fields for the fields the code writes: status must be one of
\* STATUS_CHOICES and failure_message at most max_length characters (a
\* blank failure_message is not validated).
clean_fields(o) ==
    /\ o.status \in STATUS_CHOICES
    /\ Len(o.status) <= 50
    /\ Len(o.failure_message) <= FailureMessageMaxLength

\* clean() stamping on 'created' only
clean_created_only(o, now) ==
    IF o.status = ASYNC_STATUS_CREATED
    THEN [o EXCEPT !.terminal_timestamp = now]
    ELSE o

\* clean() stamping whatever the status
clean_any_status(o, now) == [o EXCEPT !.terminal_timestamp = now]

\* AsyncProcess.clean
clean(o, now) ==
    IF o.status \in ASYNC_TERMINAL_STATES
    THEN [o EXCEPT !.terminal_timestamp = now]
    ELSE o

\* AsyncProcess.save: full_clean runs clean_fields and then clean()
\* whatever clean_fields found, and raises ValidationError afterwards if a
\* field was invalid; only then is the row written.
save(o, now) == [ok |-> clean_fields(o), obj |-> clean(o, now)]

\* AsyncProcess.objects.create(identifier=..., target=...)
NewProcess ==
    [status |-> ASYNC_STATUS_PENDING,
     terminal_timestamp |-> Null,
     failure_message |-> "",
     logs |-> NoLogs,
     group |-> Null]

NoException == [kind |-> "none", msg |-> ""]
AsyncError(m) == [kind |-> "AsyncError", msg |-> m]
\* any exception that is not an AsyncError (ValidationError, OSError, ...)
OtherException == [kind |-> "Exception", msg |-> "original text"]


VARIABLES
    clock,             \* the value datetime.now() returned last
    target,            \* process.target: Null or the target's pk
    input_files,       \* data file names of process.input_files, in query order
    allowed_suffixes,  \* class attribute of the pipeline class
    max_steps,         \* saves the work method makes at most, over all runs
    db,                \* the persisted process row
    cproc,             \* the instance held by the caller of send_task
    sent,              \* send_task has been called
    send_raised,       \* send_task raised to its caller
    enqueued,          \* the job is on the queue
    proc,              \* the instance the worker loaded
    pc,                \* position of the worker in run_process / run()
    runs,              \* number of times run() was invoked
    exc,               \* the exception run() raised, if any
    outcome,           \* how the last run_process ended
    steps,             \* operations the work method has performed
    logged,            \* the messages given to log(), in call order
    tmpdir,            \* Null, or the id of the live workspace directory
    tmpdirs_made,      \* number of workspace directories ever created
    work_called,       \* number of times do_pipeline was invoked
    outputs,           \* the list do_pipeline returned
    idx,               \* loop index of the output loop and of the group loop
                       \* (0 outside the loops)
    new_dps,           \* local of run(): pks of the data products it created
    products,          \* DataProduct rows
    reduced,           \* ReducedDatum rows
    groups,            \* DataProductGroup rows
    saved_terminal,    \* a save with a terminal status has succeeded
    pre,               \* the sizes of the store and the group of the row when
                       \* run() was called
    call,              \* a call of a class method or of a view handler: the
                       \* function, its arguments, and its result once made
    autovar            \* a worker that runs AutovarProcess rows: the rows,
                       \* the instances it loaded, and the handlers of
                       \* logging.getLogger('autovar')

\* what no step of a run writes
config == <<target, input_files, allowed_suffixes, max_steps, call, autovar>>
caller == <<cproc, sent, send_raised, enqueued>>
worker == <<proc, pc, runs, exc, outcome, steps, logged>>
workspace == <<tmpdir, tmpdirs_made, work_called>>
loop == <<outputs, idx, new_dps>>
store == <<products, reduced, groups>>
record == <<db, saved_terminal>>
vars == <<clock, config, caller, worker, workspace, loop, store, record, pre>>

Snapshot(prods, rds, grps, row) ==
    [products |-> Len(prods), reduced |-> Len(rds), groups |-> Len(grps),
     group |-> row.group]

\* AutovarProcess.objects.create(identifier=..., target=...)
NewAutovarProcess ==
    [status |-> ASYNC_STATUS_PENDING,
     terminal_timestamp |-> Null,
     failure_message |-> "",
     logs |-> NoLogs]

\* no worker of AutovarProcess rows is followed
NoWorker == Null

\* no call is followed
NoCall == [fn |-> "none", arg |-> Null, done |-> FALSE, ret |-> Null]

\* the state after the process has been created, whatever its configuration
Created ==
    /\ clock = 1
    /\ db = NewProcess
    /\ cproc = NewProcess
    /\ sent = FALSE
    /\ send_raised = FALSE
    /\ enqueued = FALSE
    /\ proc = NewProcess
    /\ pc = "idle"
    /\ runs = 0
    /\ exc = NoException
    /\ outcome = "none"
    /\ steps = 0
    /\ logged = <<>>
    /\ tmpdir = Null
    /\ tmpdirs_made = 0
    /\ work_called = 0
    /\ outputs = <<>>
    /\ idx = 0
    /\ new_dps = <<>>
    /\ products = <<>>
    /\ reduced = <<>>
    /\ groups = <<>>
    /\ saved_terminal = FALSE
    /\ pre = Snapshot(<<>>, <<>>, <<>>, NewProcess)

\* the configurations the runs are followed from: no target, no input
\* files, an input the declared suffixes reject, inputs they accept
Init ==
    /\ \E c \in
          {[target |-> Null, input_files |-> <<"data/x.tar.gz">>,
            allowed_suffixes |-> NotDeclared],
           [target |-> TargetPk, input_files |-> <<>>,
            allowed_suffixes |-> NotDeclared],
           [target |-> TargetPk,
            input_files |-> <<"data/myarchive.tar", "data/x.tar.gz">>,
            allowed_suffixes |-> << <<".tar", ".7z">> >>],
           [target |-> TargetPk,
            input_files |-> <<"data/myarchive.tar", "data/x.tar.gz">>,
            allowed_suffixes |-> << <<".tar", ".tar.gz">> >>]} :
          /\ target = c.target
          /\ input_files = c.input_files
          /\ allowed_suffixes = c.allowed_suffixes
    /\ max_steps = MaxWorkSteps
    /\ call = NoCall
    /\ autovar = NoWorker
    /\ Created

\* every configuration within the bounds
InitInputs ==
    /\ target \in {Null, TargetPk}
    /\ input_files \in
          SeqsUpTo({"data/x.tar.gz", "data/myarchive.tar", ""}, MaxInputs)
    /\ allowed_suffixes \in
          {NotDeclared, << <<>> >>, << <<".tar", ".7z">> >>,
           << <<".tar", ".tar.gz">> >>}
    /\ max_steps = MaxWorkSteps
    /\ call = NoCall
    /\ autovar = NoWorker
    /\ Created

\* a process that passes the checks of run(), whose work method logs
InitLogs ==
    /\ target = TargetPk
    /\ input_files = <<"data/myarchive.tar">>
    /\ allowed_suffixes = NotDeclared
    /\ max_steps = MaxLogs
    /\ call = NoCall
    /\ autovar = NoWorker
    /\ Created

\* datetime.now() never goes back: the values a call made now may return
Now == clock..MaxClock

\* the values datetime.now() may return during o.save(): clean() calls it
\* for a terminal status only
NowOfSave(o) == IF o.status \in ASYNC_TERMINAL_STATES THEN Now ELSE {clock}

\* The row after `o.save()`, datetime.now() being `now`.
Persist(o, now) ==
    LET r == save(o, now) IN
    /\ clock' = now
    /\ db' = IF r.ok THEN r.obj ELSE db
    /\ saved_terminal' =
          (saved_terminal \/ (r.ok /\ r.obj.status \in ASYNC_TERMINAL_STATES))

(***************************************************************************)
(* send_task (tasks.py)                                                    *)
(***************************************************************************)
\* task.send(process.pk, *args) succeeds: the job is queued.
SendTaskOk ==
    /\ ~sent
    /\ sent' = TRUE
    /\ enqueued' = TRUE
    /\ UNCHANGED <<pre, clock, config, cproc, send_raised, worker, workspace, loop,
                   store, record>>

\* the except branch forgetting the message
send_task_failed_no_message(o) == [o EXCEPT !.status = ASYNC_STATUS_FAILED]

\* what the except RedisError branch assigns before saving
send_task_failed(o) ==
    [o EXCEPT !.status = ASYNC_STATUS_FAILED,
              !.failure_message = MsgSubmitFailed]

\* the job queued although task.send raised
SendTaskRedisError_job_queued ==
    /\ ~sent
    /\ sent' = TRUE
    /\ enqueued' = TRUE
    /\ \E now \in Now :
          LET o == send_task_failed(cproc)
              r == save(o, now) IN
          /\ cproc' = r.obj
          /\ send_raised' = ~r.ok
          /\ Persist(o, now)
    /\ UNCHANGED <<pre, config, worker, workspace, loop, store>>

\* task.send raises RedisError: the job is not queued.
SendTaskRedisError ==
    /\ ~sent
    /\ sent' = TRUE
    /\ \E now \in Now :
          LET o == send_task_failed(cproc)
              r == save(o, now) IN
          /\ cproc' = r.obj
          /\ send_raised' = ~r.ok
          /\ Persist(o, now)
    /\ UNCHANGED <<pre, config, enqueued, worker, workspace, loop, store>>


(***************************************************************************)
(* run_pipeline / run_process (tasks.py)                                   *)
(***************************************************************************)
\* run_pipeline: the worker takes the job, loads the row by primary key and
\* enters run_process, which calls process.run().
TaskStart ==
    /\ enqueued
    /\ pc \in {"idle", "done"}
    /\ runs < MaxRuns
    /\ proc' = db
    /\ pc' = "run"
    /\ runs' = runs + 1
    /\ exc' = NoException
    /\ outcome' = "none"
    /\ outputs' = <<>>
    /\ idx' = 0
    /\ new_dps' = <<>>
    /\ pre' = Snapshot(products, reduced, groups, db)
    /\ UNCHANGED <<clock, config, caller, steps, logged, workspace, store, record>>

\* the exception leaves run() and the workspace stays
raise_keeping_workspace(e) ==
    /\ exc' = e
    /\ pc' = "except"
    /\ tmpdir' = tmpdir
    /\ idx' = 0
    /\ new_dps' = <<>>

\* the exception leaves run(): the with-block, if entered, removes the
\* workspace on the way out
Raise(e) ==
    /\ exc' = e
    /\ pc' = "except"
    /\ tmpdir' = Null
    /\ idx' = 0
    /\ new_dps' = <<>>

(***************************************************************************)
(* PipelineProcess.run (models/pipelines.py)                               *)
(***************************************************************************)
\* all() in place of any()
valid_suffix_all(filename, suffixes) ==
    \A i \in 1..Len(suffixes) : endswith(filename, suffixes[i])

\* utils.assert_valid_suffix: TRUE when no AssertionError is raised
valid_suffix(filename, suffixes) ==
    \E i \in 1..Len(suffixes) : endswith(filename, suffixes[i])

\* the message of the AssertionError of assert_valid_suffix
suffix_error(filename, suffixes) ==
    "File '" \o filename \o "' does not end an allowed filename suffix ("
        \o join(suffixes) \o ")"

\* `if self.allowed_suffixes:`
suffixes_checked(allowed) == allowed # NotDeclared /\ allowed[1] # <<>>

\* indices of the input files that fail the suffix check
bad_inputs(files, suffixes) ==
    {i \in 1..Len(files) : ~valid_suffix(basename(files[i]), suffixes)}

\* the checks without the input-files check
precheck_no_input_check(tgt, files, allowed) ==
    IF tgt = Null THEN AsyncError(MsgNoTarget)
    ELSE IF suffixes_checked(allowed) /\ bad_inputs(files, allowed[1]) # {}
    THEN AsyncError("Error running pipeline")
    ELSE NoException

\* the input-files check before the target check
precheck_inputs_first(tgt, files, allowed) ==
    IF files = <<>> THEN AsyncError(MsgNoInput)
    ELSE IF tgt = Null THEN AsyncError(MsgNoTarget)
    ELSE IF suffixes_checked(allowed) /\ bad_inputs(files, allowed[1]) # {}
    THEN AsyncError("Error running pipeline")
    ELSE NoException

\* lines 41-52: the exception the precondition checks raise, if any
precheck(tgt, files, allowed) ==
    IF tgt = Null THEN AsyncError(MsgNoTarget)
    ELSE IF files = <<>> THEN AsyncError(MsgNoInput)
    ELSE IF suffixes_checked(allowed) /\ bad_inputs(files, allowed[1]) # {}
    THEN LET bad == bad_inputs(files, allowed[1])
             first == CHOOSE i \in bad : \A j \in bad : i <= j
         IN AsyncError("Error running pipeline "
                          \o suffix_error(basename(files[first]), allowed[1]))
    ELSE NoException

\* run() up to the call of do_pipeline: the checks, then the workspace
RunBegin ==
    /\ pc = "run"
    /\ LET e == precheck(target, input_files, allowed_suffixes) IN
       IF e # NoException
       THEN /\ Raise(e)
            /\ UNCHANGED <<tmpdirs_made, work_called>>
       ELSE /\ tmpdir' = tmpdirs_made + 1
            /\ tmpdirs_made' = tmpdirs_made + 1
            /\ work_called' = work_called + 1
            /\ pc' = "work"
            /\ UNCHANGED <<exc, idx, new_dps>>
    /\ UNCHANGED <<pre, clock, config, caller, proc, runs, outcome, steps, logged,
                   outputs, store, record>>

\* log() replacing the text
log_overwriting(o, msg) == [o EXCEPT !.logs = <<msg \o "\n">>]

\* PipelineProcess.log: the instance after the assignments, before save()
log(o, msg) ==
    LET old == IF o.logs = NoLogs \/ o.logs[1] = "" THEN "" ELSE o.logs[1]
    IN [o EXCEPT !.logs = <<old \o msg \o "\n">>]

\* a save() made by the work method: the instance keeps what clean() did
\* to it; an invalid field raises ValidationError out of run()
WorkSave(o) ==
    /\ \E now \in NowOfSave(o) :
          LET r == save(o, now) IN
          /\ proc' = r.obj
          /\ Persist(o, now)
          /\ IF r.ok
             THEN UNCHANGED <<pc, exc, workspace, idx, new_dps>>
             ELSE /\ Raise(OtherException)
                  /\ UNCHANGED <<tmpdirs_made, work_called>>
    /\ steps' = steps + 1
    /\ UNCHANGED <<pre, config, caller, runs, outcome, outputs, store>>

\* the work method calls self.log(msg)
WorkLog(msg) ==
    /\ pc = "work"
    /\ steps < max_steps
    /\ WorkSave(log(proc, msg))
    /\ logged' = Append(logged, msg)

\* the work method enters `with self.update_status(s):`
WorkUpdateStatus(s) ==
    /\ pc = "work"
    /\ steps < max_steps
    /\ WorkSave([proc EXCEPT !.status = s])
    /\ UNCHANGED logged

\* the work method assigns a terminal status itself and saves
WorkAssignStatus(s) ==
    /\ pc = "work"
    /\ steps < max_steps
    /\ WorkSave([proc EXCEPT !.status = s])
    /\ UNCHANGED logged

\* the work method raises AsyncError(m)
WorkRaiseAsyncError(m) ==
    /\ pc = "work"
    /\ Raise(AsyncError(m))
    /\ UNCHANGED <<pre, clock, config, caller, proc, runs, outcome, steps, logged,
                   tmpdirs_made, work_called, outputs, store, record>>

\* any other exception (I/O, library) inside the with-block of run()
UnexpectedError ==
    /\ pc \in {"work", "outputs", "group"}
    /\ Raise(OtherException)
    /\ UNCHANGED <<pre, clock, config, caller, proc, runs, outcome, steps, logged,
                   tmpdirs_made, work_called, outputs, store, record>>

\* the work method returns its outputs
WorkReturn(outs) ==
    /\ pc = "work"
    /\ Len(products) + Len(reduced) + Len(outs) <= MaxOutputs
    /\ outputs' = outs
    /\ idx' = 1
    /\ pc' = "outputs"
    /\ UNCHANGED <<pre, clock, config, caller, proc, runs, exc, outcome, steps, logged,
                   workspace, new_dps, store, record>>


\* lines 64-67: `PipelineOutput(*output)` unless it is one already; the tag
\* defaults to ''
to_pipeline_output(d) ==
    IF d.form = "PipelineOutput" THEN d.items
    ELSE IF Len(d.items) = 2 THEN d.items \o <<"">>
    ELSE d.items

\* the whole path in place of path.name
output_identifier_whole_path(path) == ProcessIdentifier \o "_" \o path

\* line 68
output_identifier(path) == ProcessIdentifier \o "_" \o basename(path)

\* lines 71-72: DataProduct.objects.create and prod.data.save
new_data_product(path, tag) ==
    [product_id |-> output_identifier(path),
     target |-> target,
     tag |-> tag,
     data |-> read(path),
     group |-> {}]

\* lines 76-82: ReducedDatum.objects.create
new_reduced_datum(path, tag, now) ==
    [target |-> target,
     data_type |-> tag,
     source_name |-> output_identifier(path),
     timestamp |-> now,
     value |-> read(path)]

\* the error without the offending type
invalid_output_type_unnamed(output_type) == AsyncError("Invalid output type")

\* line 85
invalid_output_type(output_type) ==
    AsyncError("Invalid output type '" \o output_type \o "'")

\* one iteration of `for output in outputs:`
MaterializeOutput ==
    /\ pc = "outputs"
    /\ idx <= Len(outputs)
    /\ LET out == to_pipeline_output(outputs[idx])
           path == out[1]
           output_type == out[2]
           tag == out[3]
       IN
       CASE output_type = "DataProduct" ->
              /\ products' = Append(products, new_data_product(path, tag))
              /\ new_dps' = Append(new_dps, Len(products) + 1)
              /\ idx' = idx + 1
              /\ UNCHANGED <<clock, reduced, pc, exc, tmpdir>>
         [] output_type = "ReducedDatum" ->
              /\ \E now \in Now :
                    /\ clock' = now
                    /\ reduced' =
                          Append(reduced, new_reduced_datum(path, tag, now))
              /\ idx' = idx + 1
              /\ UNCHANGED <<products, new_dps, pc, exc, tmpdir>>
         [] OTHER ->
              /\ Raise(invalid_output_type(output_type))
              /\ UNCHANGED <<clock, products, reduced>>
    /\ UNCHANGED <<pre, config, caller, proc, runs, outcome, steps, logged,
                   tmpdirs_made, work_called, outputs, groups, record>>

\* a group whatever the outputs
creates_group_always(dps) == TRUE

\* line 88: `if new_dps:`
creates_group(dps) == dps # <<>>

\* lines 88-89: the group is created and assigned to self.group
CreateGroup ==
    /\ pc = "outputs"
    /\ idx > Len(outputs)
    /\ creates_group(new_dps)
    /\ groups' = Append(groups, [name |-> ProcessIdentifier \o "_outputs"])
    /\ proc' = [proc EXCEPT !.group = Len(groups) + 1]
    /\ pc' = "group"
    /\ idx' = 1
    /\ UNCHANGED <<pre, clock, config, caller, runs, exc, outcome, steps, logged, workspace,
                   outputs, new_dps, products, reduced, record>>

\* every data product of the target added to the group
AddToGroup_every_product ==
    /\ pc = "group"
    /\ idx <= Len(new_dps)
    /\ products' = [k \in DOMAIN products |->
                      [products[k] EXCEPT !.group = @ \cup {proc.group}]]
    /\ idx' = idx + 1
    /\ UNCHANGED <<pre, clock, config, caller, worker, workspace, outputs, new_dps,
                   reduced, groups, record>>

\* lines 90-92: one iteration of `for prod in new_dps:`
AddToGroup ==
    /\ pc = "group"
    /\ idx <= Len(new_dps)
    /\ products' = [products EXCEPT ![new_dps[idx]].group = @ \cup {proc.group}]
    /\ idx' = idx + 1
    /\ UNCHANGED <<pre, clock, config, caller, worker, workspace, outputs, new_dps,
                   reduced, groups, record>>

\* the status saved wherever the loops are
RunFinish_before_loops_end ==
    /\ pc \in {"outputs", "group"}
    /\ tmpdir' = Null
    /\ idx' = 0
    /\ new_dps' = <<>>
    /\ \E now \in Now :
          LET o == [proc EXCEPT !.status = ASYNC_STATUS_CREATED]
              r == save(o, now) IN
          /\ proc' = r.obj
          /\ Persist(o, now)
          /\ IF r.ok
             THEN pc' = "done" /\ outcome' = "returned" /\ exc' = exc
             ELSE /\ pc' = "except"
                  /\ exc' = OtherException
                  /\ outcome' = outcome
    /\ UNCHANGED <<pre, config, caller, runs, steps, logged, tmpdirs_made,
                   work_called, outputs, store>>

\* the with-block ends and the workspace is removed; lines 94-95
RunFinish ==
    /\ \/ pc = "outputs" /\ idx > Len(outputs) /\ ~creates_group(new_dps)
       \/ pc = "group" /\ idx > Len(new_dps)
    /\ tmpdir' = Null
    /\ idx' = 0
    /\ new_dps' = <<>>
    /\ \E now \in Now :
          LET o == [proc EXCEPT !.status = ASYNC_STATUS_CREATED]
              r == save(o, now) IN
          /\ proc' = r.obj
          /\ Persist(o, now)
          /\ IF r.ok
             THEN pc' = "done" /\ outcome' = "returned" /\ exc' = exc
             ELSE /\ pc' = "except"
                  /\ exc' = OtherException
                  /\ outcome' = outcome
    /\ UNCHANGED <<pre, config, caller, runs, steps, logged, tmpdirs_made,
                   work_called, outputs, store>>

\* run_process lines 87-91: the message the except clauses choose
failure_message_of(e) ==
    IF e.kind = "AsyncError" THEN e.msg ELSE "An unexpected error occurred"

\* run_process lines 93-97; a ValidationError of process.save() leaves
\* run_process
HandleFailure ==
    /\ pc = "except"
    /\ \E now \in Now :
          LET o == [proc EXCEPT !.failure_message = failure_message_of(exc),
                                !.status = ASYNC_STATUS_FAILED]
              r == save(o, now) IN
          /\ proc' = r.obj
          /\ Persist(o, now)
          /\ outcome' = IF r.ok THEN "returned" ELSE "escaped"
    /\ pc' = "done"
    /\ UNCHANGED <<pre, config, caller, runs, exc, steps, logged, workspace, loop,
                   store>>

Next ==
    \/ SendTaskOk
    \/ SendTaskRedisError
    \/ TaskStart
    \/ RunBegin
    \/ \E m \in LogMessages : WorkLog(m)
    \/ \E s \in StatusValues : WorkUpdateStatus(s)
    \/ \E s \in ASYNC_TERMINAL_STATES : WorkAssignStatus(s)
    \/ \E m \in WorkMessages : WorkRaiseAsyncError(m)
    \/ UnexpectedError
    \/ pc = "work" /\ \E outs \in OutputLists : WorkReturn(outs)
    \/ MaterializeOutput
    \/ CreateGroup
    \/ AddToGroup
    \/ RunFinish
    \/ HandleFailure

Spec == Init /\ [][Next]_vars

\* The precondition checks of run() over every configuration: the work
\* method returns at once with no outputs.
NextInputs ==
    \/ SendTaskOk
    \/ TaskStart
    \/ RunBegin
    \/ WorkReturn(<<>>)
    \/ RunFinish
    \/ HandleFailure

SpecInputs == InitInputs /\ [][NextInputs]_vars

\* Runs of a work method that logs, sets its status and fails or returns
\* without outputs.
NextLogs ==
    \/ SendTaskOk
    \/ TaskStart
    \/ RunBegin
    \/ \E m \in LogMessages \cup {"and another thing", ""} : WorkLog(m)
    \/ \E s \in StatusValues : WorkUpdateStatus(s)
    \/ \E m \in WorkMessages : WorkRaiseAsyncError(m)
    \/ WorkReturn(<<>>)
    \/ RunFinish
    \/ HandleFailure

SpecLogs == InitLogs /\ [][NextLogs]_vars

\* a process that passes the checks of run()
InitRun ==
    /\ target = TargetPk
    /\ input_files = <<"data/myarchive.tar", "data/x.tar.gz">>
    /\ allowed_suffixes = << <<".tar", ".tar.gz">> >>
    /\ max_steps = MaxWorkSteps
    /\ call = NoCall
    /\ autovar = NoWorker
    /\ Created

\* Runs of a work method that uses what PipelineProcess gives it: log(),
\* update_status() with a progress label or 'pending', AsyncError, and the
\* outputs it returns.
NextRun ==
    \/ SendTaskOk
    \/ TaskStart
    \/ RunBegin
    \/ \E m \in LogMessages : WorkLog(m)
    \/ \E s \in StatusValues : WorkUpdateStatus(s)
    \/ \E m \in WorkMessages : WorkRaiseAsyncError(m)
    \/ UnexpectedError
    \/ pc = "work" /\ \E outs \in OutputLists : WorkReturn(outs)
    \/ MaterializeOutput
    \/ CreateGroup
    \/ AddToGroup
    \/ RunFinish
    \/ HandleFailure

SpecRun == InitRun /\ [][NextRun]_vars


(***************************************************************************)
(* Python values given as the flags attribute of a pipeline class.         *)
(***************************************************************************)
PyNone == [type |-> "NoneType"]
PyInt(n) == [type |-> "int", val |-> n]
PyStr(x) == [type |-> "str", val |-> x]
PyList == [type |-> "list"]
\* a dict: its items in iteration (insertion) order
PyDict(items) == [type |-> "dict", items |-> items]

\* the entries of the description of a flag
InfoEntry(k) == [key |-> PyStr(k), value |-> PyStr("x")]

\* entries of a flags dict: every name (without whitespace, with
\* whitespace in each position, empty, and a key that is not a string) with
\* a complete description, and every description (complete, without
\* 'default', without 'long_name', and not a dict) under two names without
\* whitespace and under a name that is not a string
FlagEntries ==
    {[key |-> k, value |-> PyDict(<<InfoEntry("default"), InfoEntry("long_name")>>)] :
        k \in {PyStr("myflag"), PyStr("name with spaces"), PyStr(" leading"),
               PyStr("trailing "), PyStr("tab\tinside"), PyStr("line\ninside"),
               PyStr("newline\n"), PyStr(""), PyInt(4)}}
    \cup {[key |-> k, value |-> v] :
             k \in {PyStr("myflag"), PyStr("default_true"), PyInt(4)},
             v \in {PyDict(<<InfoEntry("default"), InfoEntry("long_name")>>),
                    PyDict(<<InfoEntry("long_name")>>),
                    PyDict(<<InfoEntry("default")>>),
                    PyStr("hello")}}

\* dicts of at most n entries with distinct keys
FlagDicts(n) ==
    {PyDict(items) : items \in
        {q \in SeqsUpTo(FlagEntries, n) :
            \A i, j \in 1..Len(q) : q[i].key = q[j].key => i = j}}


(***************************************************************************)
(* PipelineProcess.validate_flags (models/pipelines.py)                    *)
(***************************************************************************)
\* re.match(r'[^\s]+$', name) for a string: one or more characters that are
\* not whitespace from the start of the string, up to its end or up to a
\* newline that ends it
name_matches(name) ==
    LET n == Len(name)
        ws(i) == SubSeq(name, i, i) \in {" ", "\t", "\n"}
    IN \E k \in 1..n :
          /\ \A i \in 1..k : ~ws(i)
          /\ \/ k = n
             \/ k = n - 1 /\ SubSeq(name, n, n) = "\n"

\* `key in info` for a dict with string keys
has_key(info, k) ==
    \E i \in 1..Len(info.items) : info.items[i].key.val = k

\* the body of the loop without the 'long_name' assertion
validate_item_no_long_name(name, info) ==
    IF name.type # "str" THEN "TypeError"
    ELSE IF ~name_matches(name.val) THEN "AssertionError"
    ELSE IF info.type # "dict" THEN "AssertionError"
    ELSE IF ~has_key(info, "default") THEN "AssertionError"
    ELSE "ok"

\* lines 161-164, the body of the loop: re.match raises TypeError for a name
\* that is not a string, then the four assertions in order
validate_item(name, info) ==
    IF name.type # "str" THEN "TypeError"
    ELSE IF ~name_matches(name.val) THEN "AssertionError"
    ELSE IF info.type # "dict" THEN "AssertionError"
    ELSE IF ~has_key(info, "default") THEN "AssertionError"
    ELSE IF ~has_key(info, "long_name") THEN "AssertionError"
    ELSE "ok"

RECURSIVE validate_items(_)
\* lines 160-164: the loop stops at the first item that raises
validate_items(items) ==
    IF items = <<>> THEN "returned"
    ELSE LET r == validate_item(items[1].key, items[1].value) IN
         IF r # "ok" THEN r ELSE validate_items(Tail(items))

\* validate_flags: "returned", or the name of the exception it raises
validate_flags(flags) ==
    IF flags.type = "NoneType" THEN "returned"
    ELSE IF flags.type # "dict" THEN "AssertionError"
    ELSE validate_items(flags.items)

(***************************************************************************)
(* The flags of a pipeline process: PipelineProcess.create_timestamped     *)
(* writes them as JSON, run() reads them back (models/pipelines.py)        *)
(***************************************************************************)
PyBool(b) == [type |-> "bool", val |-> b]

\* create_timestamped, lines 166-180, for the class PipelineProcess and the
\* target, called at the time `now` while the table holds the identifiers
\* `existing`.  strftime('%Y%m%d%H%M%S') keeps the second of `now` and drops
\* the microsecond; the identifier column is unique (models.py line 207), so
\* objects.create raises IntegrityError for an identifier that exists.
\* json.dumps writes a dict with string keys as a JSON object: None as null,
\* True and False as true and false, an int as a number, a str as a string.
pipeline_create_timestamped(existing, now, flags) ==
    LET date_str == "2019010203040" \o ToString(now.sec)
        identifier == "pipeline_" \o ToString(TargetPk) \o "_" \o date_str
        json_value(v) ==
            CASE v.type = "NoneType" -> [json |-> "null"]
              [] v.type = "bool" ->
                    [json |-> IF v.val THEN "true" ELSE "false"]
              [] v.type = "int" -> [json |-> "number", val |-> v.val]
              [] OTHER -> [json |-> "string", val |-> v.val]
        json_dumps(d) ==
            [json |-> "object",
             members |-> [i \in 1..Len(d.items) |->
                            [name |-> d.items[i].key.val,
                             value |-> json_value(d.items[i].value)]]]
        \* `if flags:` is false for None and for the empty dict
        given == flags.type = "dict" /\ flags.items # <<>>
    IN IF identifier \in existing
       THEN [raised |-> "IntegrityError", identifier |-> identifier,
             flags_json |-> PyNone]
       ELSE [raised |-> "", identifier |-> identifier,
             flags_json |-> IF given THEN json_dumps(flags) ELSE PyNone]

\* run() calling do_pipeline without the stored flags
run_flags_not_passed(flags_json) == PyDict(<<>>)

\* run(), line 58: the keyword arguments of do_pipeline.  json.loads reads
\* an object as a dict with string keys: null as None, true and false as
\* True and False, a number as an int, a string as a str.
run_flags(flags_json) ==
    LET py_value(j) ==
            CASE j.json = "null" -> PyNone
              [] j.json = "true" -> PyBool(TRUE)
              [] j.json = "false" -> PyBool(FALSE)
              [] j.json = "number" -> PyInt(j.val)
              [] OTHER -> PyStr(j.val)
        json_loads(doc) ==
            PyDict([i \in 1..Len(doc.members) |->
                      [key |-> PyStr(doc.members[i].name),
                       value |-> py_value(doc.members[i].value)]])
    IN IF flags_json # PyNone THEN json_loads(flags_json) ELSE PyDict(<<>>)

(***************************************************************************)
(* PipelineProcess.get_subclass and the pipeline action of the target data *)
(* view (views.py)                                                         *)
(***************************************************************************)
\* what import_string finds at a dotted path
NothingImported == [kind |-> "ImportError", pipeline |-> FALSE, flags |-> PyNone]

\* the objects the interpreter can import, the class at the pipeline path
\* having the flags given
Modules(flags) ==
    [path \in {"datetime.datetime", "tom_education.tests.FakePipeline",
               "tom_education.models.ASYNC_STATUS_PENDING"} |->
        CASE path = "datetime.datetime" ->
                [kind |-> "class", pipeline |-> FALSE, flags |-> PyNone]
          [] path = "tom_education.tests.FakePipeline" ->
                [kind |-> "class", pipeline |-> TRUE, flags |-> flags]
          [] OTHER -> [kind |-> "object", pipeline |-> FALSE, flags |-> PyNone]]

\* names asked for: the configured one and one that is not configured
PipelineNames == {"mypip", "blah"}

\* django.utils.module_loading.import_string
import_string(path, modules) ==
    IF path \in DOMAIN modules THEN modules[path] ELSE NothingImported

Raised(e) == [raised |-> e, cls |-> NothingImported]
Returned(c) == [raised |-> "", cls |-> c]

\* get_subclass catching KeyError as well
get_subclass_catching_keyerror(name, pipelines, modules) ==
    IF name \notin DOMAIN pipelines THEN Raised("InvalidPipelineError")
    ELSE LET pipeline_cls == import_string(pipelines[name], modules) IN
         IF pipeline_cls.kind = "ImportError" THEN Raised("InvalidPipelineError")
         ELSE IF pipeline_cls.kind # "class" THEN Raised("InvalidPipelineError")
         ELSE IF ~pipeline_cls.pipeline THEN Raised("InvalidPipelineError")
         ELSE LET v == validate_flags(pipeline_cls.flags) IN
              IF v = "AssertionError" THEN Raised("InvalidPipelineError")
              ELSE IF v # "returned" THEN Raised(v)
              ELSE Returned(pipeline_cls)

\* PipelineProcess.get_subclass: the exception raised, or the class returned.
\* Only ImportError, the TypeError of issubclass and AssertionError are
\* caught.
get_subclass(name, pipelines, modules) ==
    IF name \notin DOMAIN pipelines THEN Raised("KeyError")
    ELSE LET pipeline_cls == import_string(pipelines[name], modules) IN
         IF pipeline_cls.kind = "ImportError" THEN Raised("InvalidPipelineError")
         ELSE IF pipeline_cls.kind # "class" THEN Raised("InvalidPipelineError")
         ELSE IF ~pipeline_cls.pipeline THEN Raised("InvalidPipelineError")
         ELSE LET v == validate_flags(pipeline_cls.flags) IN
              IF v = "AssertionError" THEN Raised("InvalidPipelineError")
              ELSE IF v # "returned" THEN Raised(v)
              ELSE Returned(pipeline_cls)

\* the answer of the view: the HTTP status (500 for an exception that leaves
\* the handler), the process records created and the jobs submitted, and
\* the flags_json of the process created
Response(code, e, n, flags_json) ==
    [status_code |-> code, raised |-> e, created |-> n, submitted |-> n,
     flags_json |-> flags_json]

\* the flags of the view with no flag set from the form
form_flags_all_false(cls_flags, keys) ==
    IF cls_flags.type = "dict"
    THEN PyDict([i \in 1..Len(cls_flags.items) |->
                   [key |-> cls_flags.items[i].key, value |-> PyBool(FALSE)]])
    ELSE PyDict(<<>>)

\* handle_pipeline, lines 202-213: every flag of the class starts False ({}
\* for a class whose flags are None or empty); a key of the form data that
\* starts with 'pipeline_flag_' sets the flag named by the rest of the key
\* to True when the class has that flag
form_flags(cls_flags, keys) ==
    LET prefix == "pipeline_flag_"
        set(name) ==
            \E i \in 1..Len(keys) :
               /\ Len(keys[i]) >= Len(prefix)
               /\ SubSeq(keys[i], 1, Len(prefix)) = prefix
               /\ SubSeq(keys[i], Len(prefix) + 1, Len(keys[i])) = name
    IN IF cls_flags.type = "dict"
       THEN PyDict([i \in 1..Len(cls_flags.items) |->
                      [key |-> cls_flags.items[i].key,
                       value |-> PyBool(set(cls_flags.items[i].key.val))]])
       ELSE PyDict(<<>>)

\* ActionableTargetDetailView.handle_pipeline, the process being the first
\* of its second
handle_pipeline(form, pipelines, modules) ==
    IF ~form.has_name THEN Response(400, "", 0, PyNone)
    ELSE LET r == get_subclass(form.pipeline_name, pipelines, modules) IN
         IF r.raised = "KeyError" THEN Response(400, "", 0, PyNone)
         ELSE IF r.raised # "" THEN Response(500, r.raised, 0, PyNone)
         ELSE LET flags == form_flags(r.cls.flags, form.keys)
                  pipe == pipeline_create_timestamped(
                              {}, [sec |-> 1, usec |-> 0], flags)
              IN Response(200, "", 1, pipe.flags_json)

(***************************************************************************)
(* TimelapseDataProduct.sorted_frames (models/timelapse.py)                *)
(***************************************************************************)
\* the header of an HDU: <<>> without DATE-OBS, <<d>> with DATE-OBS = d
NoDate == <<>>

\* FITS files, each the sequence of the headers of its HDUs: the date in the
\* primary HDU, in the second HDU only, in both, in none
FitsFiles ==
    {<<(<<d>>), NoDate>> :
        d \in {"2019-01-02T03:04:00", "2019-01-02T03:05:00",
               "2019-01-02T03:07:00", "2019-01-02T03:06:00", "2019-01-02",
               "2018-12-31T23:59:59"}}
    \cup {<<NoDate, (<<"2019-01-02T03:05:00">>)>>,
          <<(<<"2019-01-02T03:07:00">>), (<<"2019-01-02T03:04:00">>)>>,
          <<NoDate, NoDate>>}

\* prod.data.name of the i-th frame
FrameNames ==
    <<"test0.fits.fz", "test1.fits.fz", "test2.fits.fz", "test3.fits.fz",
      "test4.fits.fz">>

\* int() of one decimal digit
digit(c) == CHOOSE d \in 0..9 : SubSeq("0123456789", d + 1, d + 1) = c

RECURSIVE number(_)
\* int() of a string of decimal digits
number(x) ==
    IF x = "" THEN 0
    ELSE 10 * number(SubSeq(x, 1, Len(x) - 1)) + digit(SubSeq(x, Len(x), Len(x)))

\* datetime.fromisoformat for 'YYYY-MM-DD' and 'YYYY-MM-DDTHH:MM:SS': the
\* fields of the datetime, the time being midnight when absent
fromisoformat(x) ==
    LET field(a, b) == number(SubSeq(x, a, b)) IN
    <<field(1, 4), field(6, 7), field(9, 10)>>
        \o (IF Len(x) > 10
            THEN <<field(12, 13), field(15, 16), field(18, 19)>>
            ELSE <<0, 0, 0>>)

\* datetime comparison a <= b: the fields are compared in order
datetime_le(a, b) ==
    \/ a = b
    \/ \E i \in 1..Len(a) :
          /\ a[i] < b[i]
          /\ \A j \in 1..(i - 1) : a[j] = b[j]

\* lines 154-158: the HDUs of the file that have the date field
dated_hdus(file) == {i \in 1..Len(file) : file[i] # NoDate}

\* sort_key, lines 153-163, for a file with the date field: the first HDU
\* that has it is parsed
sort_key(file) ==
    LET first == CHOOSE i \in dated_hdus(file) :
                     \A j \in dated_hdus(file) : i <= j
    IN fromisoformat(file[first][1])

\* the message of DateFieldNotFoundError, lines 160-163
date_not_found(name) ==
    "Error in file '" \o name \o
        "': could not find observation date in FITS header 'DATE-OBS'"

\* an insertion that puts x before the entries with an equal key
insert_before_equal(out, x) ==
    LET later == {i \in 1..Len(out) : datetime_le(x.key, out[i].key)}
        at == IF later = {} THEN Len(out) + 1
              ELSE CHOOSE i \in later : \A j \in later : i <= j
    IN SubSeq(out, 1, at - 1) \o <<x>> \o SubSeq(out, at, Len(out))

\* sorted() is stable: x goes before the first entry with a greater key
insert(out, x) ==
    LET later == {i \in 1..Len(out) : ~datetime_le(out[i].key, x.key)}
        at == IF later = {} THEN Len(out) + 1
              ELSE CHOOSE i \in later : \A j \in later : i <= j
    IN SubSeq(out, 1, at - 1) \o <<x>> \o SubSeq(out, at, Len(out))

RECURSIVE sorted(_)
\* sorted(entries, key=...) over entries [pk, key]
sorted(entries) ==
    IF entries = <<>> THEN <<>>
    ELSE insert(sorted(SubSeq(entries, 1, Len(entries) - 1)),
                entries[Len(entries)])

\* sorted_frames: the frames are the indices of `files` in the order of
\* self.frames.all(); the key function raises for the first file without
\* the date field
sorted_frames(files) ==
    LET undated == {i \in 1..Len(files) : dated_hdus(files[i]) = {}} IN
    IF undated # {}
    THEN LET i == CHOOSE k \in undated : \A j \in undated : k <= j IN
         [raised |-> "DateFieldNotFoundError",
          msg |-> date_not_found(FrameNames[((i - 1) % Len(FrameNames)) + 1]),
          value |-> <<>>]
    ELSE LET entries == [i \in 1..Len(files) |->
                            [pk |-> i, key |-> sort_key(files[i])]]
             out == sorted(entries)
         IN [raised |-> "", msg |-> "",
             value |-> [i \in 1..Len(out) |-> out[i].pk]]

(***************************************************************************)
(* TimelapseDataProduct.write and TimelapseProcess (models/timelapse.py)   *)
(***************************************************************************)
\* line 71: the suffixes write() accepts for its frames
FitsSuffixes == <<".fits", ".fz">>

\* prod.data.name of the i-th frame of frames.all()
frame_name(i) == FrameNames[((i - 1) % Len(FrameNames)) + 1]

\* what a call raised: an exception and its message
Raises(kind, msg) == [kind |-> kind, msg |-> msg]

\* TimelapseDataProduct.write, lines 62-76 and 109-111: the exception it
\* raises, if any, and the frames appended to the writer, in order; the
\* frames are sorted before the first one is read
write(files) ==
    LET bad == {i \in 1..Len(files) :
                   ~valid_suffix(basename(frame_name(i)), FitsSuffixes)}
        s == sorted_frames(files)
    IN IF files = <<>>
       THEN [exc |-> Raises("ValueError", "Empty data products list"),
             appended |-> <<>>]
       ELSE IF bad # {}
       THEN LET i == CHOOSE k \in bad : \A j \in bad : k <= j IN
            [exc |-> Raises("AssertionError",
                            suffix_error(basename(frame_name(i)), FitsSuffixes)),
             appended |-> <<>>]
       ELSE IF s.raised # ""
       THEN [exc |-> Raises(s.raised, s.msg), appended |-> <<>>]
       ELSE [exc |-> NoException, appended |-> s.value]

\* run() converting AssertionError and ValueError only
timelapse_run_assertion_only(files) ==
    LET w == write(files) IN
    IF w.exc.kind = "AssertionError"
    THEN [exc |-> AsyncError(w.exc.msg), appended |-> w.appended]
    ELSE IF w.exc.kind = "ValueError"
    THEN [exc |-> AsyncError("Invalid parameters. Are all images the same size?"),
          appended |-> w.appended]
    ELSE IF w.exc.kind = "DateFieldNotFoundError"
    THEN [exc |-> Raises("Exception", w.exc.msg), appended |-> w.appended]
    ELSE w

\* TimelapseProcess.run, lines 205-214: the exception that leaves run()
timelapse_run(files) ==
    LET w == write(files) IN
    IF w.exc.kind \in {"DateFieldNotFoundError", "AssertionError"}
    THEN [exc |-> AsyncError(w.exc.msg), appended |-> w.appended]
    ELSE IF w.exc.kind = "ValueError"
    THEN [exc |-> AsyncError("Invalid parameters. Are all images the same size?"),
          appended |-> w.appended]
    ELSE w

\* make_timelapse: run_process on a new TimelapseProcess whose product has
\* the frames given; TimelapseProcess.run lines 215-216 and run_process
\* lines 93-97 save the process, datetime.now() being `now`
make_timelapse(files, now) ==
    LET r == timelapse_run(files)
        o == IF r.exc = NoException
             THEN [NewProcess EXCEPT !.status = ASYNC_STATUS_CREATED]
             ELSE [NewProcess EXCEPT
                      !.failure_message = failure_message_of(r.exc),
                      !.status = ASYNC_STATUS_FAILED]
        s == save(o, now)
    IN [exc |-> r.exc,
        appended |-> r.appended,
        escaped |-> ~s.ok,
        row |-> IF s.ok THEN s.obj ELSE NewProcess]

(***************************************************************************)
(* The frames-per-second setting: Timelapse (timelapse.py) and             *)
(* TimelapseDataProduct.create_timestamped (models/timelapse.py)           *)
(***************************************************************************)
\* timelapse.py line 38: the fps used when none is configured
DefaultFps == 10

\* values of fps: not given, not positive, positive
FpsValues == {PyNone, PyInt(0), PyInt(0 - 1), PyInt(16)}

\* settings.TOM_EDUCATION_TIMELAPSE_SETTINGS: with or without 'fps'
TimelapseSettings ==
    {[has_fps |-> FALSE, fps |-> PyNone]}
    \cup {[has_fps |-> TRUE, fps |-> f] : f \in FpsValues \ {PyNone}}

\* `a or b`, for None and numbers: None and 0 are false
py_or(a, b) == IF a.type # "NoneType" /\ a.val # 0 THEN a ELSE b

\* defaults.get('fps', d)
get_fps(tl_settings, d) == IF tl_settings.has_fps THEN tl_settings.fps ELSE d

\* Timelapse.__init__ line 38
init_fps(fps, tl_settings) == py_or(fps, get_fps(tl_settings, PyInt(DefaultFps)))

\* Timelapse(products, fps=fps).create_dataproduct() for n dated products
\* of one observation: __init__ lines 27-52, create lines 72-93 and
\* create_dataproduct lines 107-120. `rejected` is whether
\* imageio.get_writer refuses an fps that is not positive.
Timelapse(n, fps, tl_settings, rejected) ==
    LET used == init_fps(fps, tl_settings) IN
    IF n = 0
    THEN [exc |-> Raises("ValueError", "Empty data products list"),
          fps |-> PyNone, appended |-> 0, product |-> FALSE]
    ELSE IF used.val <= 0 /\ rejected
    THEN [exc |-> Raises("Exception", "imageio"),
          fps |-> used, appended |-> 0, product |-> FALSE]
    ELSE [exc |-> NoException, fps |-> used, appended |-> n, product |-> TRUE]

\* TimelapseDataProduct.clean, lines 47-50: `None <= 0` is a TypeError
clean_fps(fps) ==
    IF fps = PyNone THEN Raises("TypeError", "'<=' not supported")
    ELSE IF fps.val <= 0 THEN Raises("ValidationError", "FPS must be positive")
    ELSE NoException

\* create_timestamped, lines 174-191: objects.create saves the product,
\* and save() calls clean() first
create_timestamped(tl_settings) ==
    LET fps == get_fps(tl_settings, PyNone)
        e == clean_fps(fps)
    IN [exc |-> e, fps |-> fps, appended |-> 0, product |-> e = NoException]

(***************************************************************************)
(* crop_image and get_data_index (models/timelapse.py)                     *)
(***************************************************************************)
\* a two-dimensional array: the rows and the columns of the original array
\* it holds, in order, numbered from 0
Array(h, w) == [rows |-> [i \in 1..h |-> i - 1], cols |-> [j \in 1..w |-> j - 1]]

\* data.shape
shape(data) == <<Len(data.rows), Len(data.cols)>>

\* an HDU without data, and the HDU of an image of h rows and w columns
NoDataHdu == [has_data |-> FALSE, data |-> Array(0, 0), NAXIS1 |-> 0, NAXIS2 |-> 0]
ImageHdu(h, w) == [has_data |-> TRUE, data |-> Array(h, w), NAXIS1 |-> w, NAXIS2 |-> h]

\* int(x) for the fraction x = num / den, den > 0: truncation towards zero
int(num, den) ==
    IF num >= 0 THEN num \div den ELSE 0 - ((0 - num) \div den)

\* seq[start:stop] as Python slices: a negative index counts from the end
\* and an index out of range is clamped
slice(seq, start, stop) ==
    LET n == Len(seq)
        norm(x) == IF x < 0 THEN (IF x + n < 0 THEN 0 ELSE x + n)
                   ELSE IF x > n THEN n ELSE x
    IN SubSeq(seq, norm(start) + 1, norm(stop))

\* get_data_index, lines 219-227: the indices of the HDUs with 2-d data
data_hdus(hdul) == {i \in 1..Len(hdul) : hdul[i].has_data}

\* the header values exchanged
cropped_hdu_axes_swapped(hdu, data) ==
    [hdu EXCEPT !.data = data,
                !.NAXIS1 = shape(data)[1],
                !.NAXIS2 = shape(data)[2]]

\* lines 262-265: the HDU with the cropped data and its header
cropped_hdu(hdu, data) ==
    [hdu EXCEPT !.data = data,
                !.NAXIS1 = shape(data)[2],
                !.NAXIS2 = shape(data)[1]]

\* crop_image, lines 247-265: the exception raised, if any, and the HDU
\* list afterwards
crop_image(hdul, scale) ==
    IF scale.num < 0 \/ scale.num > scale.den
    THEN [exc |-> Raises("ValueError", "scale must be in [0, 1]"), hdul |-> hdul]
    ELSE IF data_hdus(hdul) = {}
    THEN [exc |-> Raises("ValueError", "no data HDU found"), hdul |-> hdul]
    ELSE LET at == CHOOSE i \in data_hdus(hdul) :
                       \A j \in data_hdus(hdul) : i <= j
             data == hdul[at].data
             h == shape(data)[1]
             w == shape(data)[2]
             half_h == int(h * scale.num, 2 * scale.den)
             half_w == int(w * scale.num, 2 * scale.den)
             mid_y == int(h, 2)
             mid_x == int(w, 2)
             new == [rows |-> slice(data.rows, mid_y - half_h, mid_y + half_h),
                     cols |-> slice(data.cols, mid_x - half_w, mid_x + half_w)]
         IN [exc |-> NoException,
             hdul |-> [hdul EXCEPT ![at] = cropped_hdu(hdul[at], new)]]

(***************************************************************************)
(* AutovarProcess and AutovarLogBuffer (models/autovar.py): one worker     *)
(* runs the processes 1..MaxProcesses, one after the other.                *)
(***************************************************************************)
\* what a step of the autovar worker leaves alone
pipeline ==
    <<target, input_files, allowed_suffixes, max_steps, call, caller, worker,
      workspace, loop, store, record, pre>>

InitAutovar ==
    /\ target = TargetPk
    /\ input_files = <<"data/myarchive.tar">>
    /\ allowed_suffixes = NotDeclared
    /\ max_steps = MaxWorkSteps
    /\ call = NoCall
    /\ autovar =
          [rows |-> [p \in 1..MaxProcesses |-> NewAutovarProcess],
           inst |-> [p \in 1..MaxProcesses |-> NewAutovarProcess],
           handlers |-> <<>>,
           running |-> Null,
           ran |-> {},
           lines |-> 0,
           record |-> "",
           emit_at |-> 0]
    /\ Created

\* AutovarLogBuffer.write, lines 25-29: the instance after the assignments,
\* before save()
buffer_write(o, s) ==
    LET old == IF o.logs = NoLogs \/ o.logs[1] = "" THEN "" ELSE o.logs[1]
    IN [o EXCEPT !.logs = <<old \o s>>]

\* the worker loads row p and run_process calls run(), lines 40-48: the
\* checks pass, and a handler writing to a buffer of this instance is added
\* to the logger
AutovarStart(p) ==
    /\ autovar.running = Null
    /\ p \notin autovar.ran
    /\ autovar' = [autovar EXCEPT !.inst[p] = autovar.rows[p],
                                  !.handlers = Append(@, p),
                                  !.running = p,
                                  !.lines = 0]
    /\ UNCHANGED <<clock, pipeline>>

\* do_autovar, lines 84-101: the library logs a line to the 'autovar'
\* logger, which hands the record to its handlers in turn
AutovarLog(msg) ==
    /\ autovar.running # Null
    /\ autovar.emit_at = 0
    /\ autovar.lines < MaxLogs
    /\ autovar' = [autovar EXCEPT !.lines = @ + 1,
                                  !.record = msg \o "\n",
                                  !.emit_at = 1]
    /\ UNCHANGED <<clock, pipeline>>

\* StreamHandler.emit of the next handler: AutovarLogBuffer.write, lines
\* 25-30, on the process the buffer was made for
AutovarHandle ==
    /\ autovar.emit_at # 0
    /\ LET p == autovar.handlers[autovar.emit_at]
           o == buffer_write(autovar.inst[p], autovar.record)
       IN \E now \in NowOfSave(o) :
             LET r == save(o, now) IN
             /\ clock' = now
             /\ autovar' =
                   [autovar EXCEPT
                      !.inst[p] = r.obj,
                      !.rows[p] = IF r.ok THEN r.obj ELSE @,
                      !.emit_at = IF autovar.emit_at < Len(autovar.handlers)
                                  THEN @ + 1 ELSE 0]
    /\ UNCHANGED pipeline

\* the end of a run of the running process with the status and the
\* failure message given: the instance is saved
autovar_end(status, message) ==
    /\ autovar.running # Null
    /\ autovar.emit_at = 0
    /\ LET p == autovar.running
           o == [autovar.inst[p] EXCEPT !.status = status,
                                        !.failure_message = message]
       IN \E now \in NowOfSave(o) :
             LET r == save(o, now) IN
             /\ clock' = now
             /\ autovar' =
                   [autovar EXCEPT
                      !.inst[p] = r.obj,
                      !.rows[p] = IF r.ok THEN r.obj ELSE @,
                      !.running = Null,
                      !.ran = @ \cup {p}]
    /\ UNCHANGED pipeline

\* run(), lines 65-66
AutovarFinish ==
    LET p == autovar.running IN
    /\ p # Null
    /\ autovar_end(ASYNC_STATUS_CREATED, autovar.inst[p].failure_message)

\* run(), lines 54-55, and run_process, lines 87-97: autovar raises
\* AutovarException
AutovarFail ==
    /\ autovar.running # Null
    /\ autovar_end(ASYNC_STATUS_FAILED, "No stars found")

NextAutovar ==
    \/ \E p \in 1..MaxProcesses : AutovarStart(p)
    \/ \E msg \in {"Found 3 stars", "Making plots"} : AutovarLog(msg)
    \/ AutovarHandle
    \/ AutovarFinish
    \/ AutovarFail

SpecAutovar == InitAutovar /\ [][NextAutovar]_vars

(***************************************************************************)
(* AutovarProcess.do_autovar and update_status (models/autovar.py)         *)
(***************************************************************************)
\* the labels of the with-blocks of do_autovar, lines 92-101, in order
AutovarSteps ==
    <<"Finding stars", "Finding comparisons", "Calculating curves",
      "Performing photometric calculations", "Making plots">>

RECURSIVE do_autovar(_, _, _, _)
\* do_autovar from its k-th with-block on, for the instance o whose row is
\* `row`; the call of the library in block `raises_at` raises
\* AutovarException (none does when raises_at is 0).  update_status, lines
\* 118-122, yields first, so the block runs, and only when the block has
\* returned is the label assigned and the instance saved; an exception in
\* the block is thrown at the yield and skips both.  `during` lists, for
\* each block that ran, its label and the status of the row while it ran.
do_autovar(o, row, k, raises_at) ==
    IF k > Len(AutovarSteps)
    THEN [exc |-> NoException, during |-> <<>>, row |-> row]
    ELSE LET seen == [label |-> AutovarSteps[k], status |-> row.status]
             labelled == [o EXCEPT !.status = AutovarSteps[k]]
             r == save(labelled, clock)
         IN IF k = raises_at
            THEN [exc |-> Raises("AutovarException", "No stars found"),
                  during |-> <<seen>>, row |-> row]
            ELSE IF ~r.ok
            THEN [exc |-> Raises("ValidationError", "not a valid choice"),
                  during |-> <<seen>>, row |-> row]
            ELSE LET rest == do_autovar(r.obj, r.obj, k + 1, raises_at)
                 IN [rest EXCEPT !.during = <<seen>> \o @]

(***************************************************************************)
(* The frames of a timelapse: TimelapseDataProduct._write, lines 109-146,  *)
(* under TimelapseProcess.run (models/timelapse.py)                        *)
(***************************************************************************)
\* the modifiers with background normalisation before the crop
frame_modifiers_normalise_first(tl_settings) ==
    (IF tl_settings.normalise_background
     THEN <<"normalise_background">> ELSE <<>>)
    \o (IF tl_settings.has_crop /\ tl_settings.crop_enabled
        THEN <<"crop_image">> ELSE <<>>)

\* lines 117-124: the modifiers of a frame, in the order they are applied
frame_modifiers(tl_settings) ==
    (IF tl_settings.has_crop /\ tl_settings.crop_enabled
     THEN <<"crop_image">> ELSE <<>>)
    \o (IF tl_settings.normalise_background
        THEN <<"normalise_background">> ELSE <<>>)

RECURSIVE modify_frame(_, _, _)
\* lines 129-131: the modifiers are called in turn on the HDU list, up to
\* the first one that raises.  normalise_background, lines 230-244, raises
\* as get_data_index does and keeps the shape of the data (the values of
\* the pixels are not followed).
modify_frame(hdul, mods, scale) ==
    IF mods = <<>>
    THEN [exc |-> NoException, hdul |-> hdul, applied |-> <<>>]
    ELSE LET r == IF Head(mods) = "crop_image" THEN crop_image(hdul, scale)
                  ELSE IF data_hdus(hdul) = {}
                  THEN [exc |-> Raises("ValueError", "no data HDU found"),
                        hdul |-> hdul]
                  ELSE [exc |-> NoException, hdul |-> hdul]
         IN IF r.exc # NoException
            THEN [exc |-> r.exc, hdul |-> r.hdul, applied |-> <<>>]
            ELSE LET rest == modify_frame(r.hdul, Tail(mods), scale)
                 IN [rest EXCEPT !.applied = <<Head(mods)>> \o @]

\* the loop leaving out the frames that have no modifier to apply
RECURSIVE write_frames_modified_only(_, _, _)
write_frames_modified_only(order, hduls, tl_settings) ==
    IF order = <<>> THEN [exc |-> NoException, appended |-> <<>>]
    ELSE LET mods == frame_modifiers(tl_settings)
             scale == IF tl_settings.has_scale THEN tl_settings.scale
                      ELSE [num |-> 1, den |-> 2]
             m == modify_frame(hduls[Head(order)], mods, scale)
         IN IF m.exc # NoException
            THEN [exc |-> Raises("ValueError",
                                 "Error in file '" \o frame_name(Head(order))
                                    \o "': " \o m.exc.msg),
                  appended |-> <<>>]
            ELSE LET rest == write_frames_modified_only(Tail(order), hduls,
                                                        tl_settings)
                 IN [rest EXCEPT !.appended =
                        (IF mods = <<>> THEN <<>>
                         ELSE <<[frame |-> Head(order), applied |-> m.applied,
                                 converted |-> "tmp.fits"]>>) \o @]

RECURSIVE write_frames(_, _, _)
\* lines 111-146, the loop over the sorted frames `order`, hduls[i] being
\* what fits.open gives for the i-th frame: the exception that leaves the
\* loop, if any, and for each frame given to writer.append_data the
\* modifiers applied and the file fits_to_jpg converted (the HDU list
\* written to tmp.fits when there are modifiers, otherwise the frame's own
\* file).  A ValueError of a modifier is raised again with the file's name.
write_frames(order, hduls, tl_settings) ==
    IF order = <<>> THEN [exc |-> NoException, appended |-> <<>>]
    ELSE LET mods == frame_modifiers(tl_settings)
             \* crop_settings.get('scale', 0.5)
             scale == IF tl_settings.has_scale THEN tl_settings.scale
                      ELSE [num |-> 1, den |-> 2]
             m == modify_frame(hduls[Head(order)], mods, scale)
         IN IF m.exc # NoException
            THEN [exc |-> Raises("ValueError",
                                 "Error in file '" \o frame_name(Head(order))
                                    \o "': " \o m.exc.msg),
                  appended |-> <<>>]
            ELSE LET rest == write_frames(Tail(order), hduls, tl_settings)
                 IN [rest EXCEPT !.appended =
                        <<[frame |-> Head(order), applied |-> m.applied,
                           converted |-> IF mods = <<>> THEN "product.data.path"
                                         ELSE "tmp.fits"]>> \o @]

\* TimelapseProcess.run, lines 205-216, with write(), lines 62-76: the
\* checks and the sort of write() come first, then the frames are written;
\* a ValueError of the loop is printed and replaced by an AsyncError with a
\* fixed message
timelapse_write(files, hduls, tl_settings) ==
    LET r == timelapse_run(files)
        w == write_frames(r.appended, hduls, tl_settings)
    IN IF r.exc # NoException THEN [exc |-> r.exc, appended |-> <<>>]
       ELSE IF w.exc.kind = "ValueError"
       THEN [exc |-> AsyncError("Invalid parameters. Are all images the same size?"),
             appended |-> w.appended]
       ELSE w

(***************************************************************************)
(* Calls of the class methods, of the view and of sorted_frames.           *)
(***************************************************************************)
RECURSIVE make_timelapses(_)
\* process_observation_alerts, lines 41-64: the loop over the targets with
\* new data, in the order `ts` in which the set is iterated.  A target has
\* `old` timelapse products, has image files to make a timelapse of or
\* not, and run() of its new pipeline returns with one timelapse in its
\* group or raises AsyncError.  The module does not import AsyncError, so
\* evaluating `except AsyncError` raises NameError, which leaves the
\* command.  `after` gives, for every target, the old timelapses left and
\* the new ones made; `reported` is whether 'Failed to create timelapse'
\* was written.
make_timelapses(ts) ==
    IF ts = <<>> THEN [raised |-> "", reported |-> FALSE, after |-> <<>>]
    ELSE IF Head(ts).images /\ Head(ts).fails
    THEN [raised |-> "NameError", reported |-> FALSE,
          after |-> [i \in 1..Len(ts) |-> [old |-> ts[i].old, new |-> 0]]]
    ELSE LET rest == make_timelapses(Tail(ts)) IN
         [rest EXCEPT !.after =
             <<IF Head(ts).images THEN [old |-> 0, new |-> 1]
               ELSE [old |-> Head(ts).old, new |-> 0]>> \o @]

\* the task run_pipeline (tasks.py lines 56-73) for the name given, a row
\* with the primary key existing or not: the exception that leaves the
\* task, whether a warning was printed and whether run_process was called.
\* Only ImportError is caught around get_subclass.
run_pipeline(exists, name, pipelines, modules) ==
    LET r == get_subclass(name, pipelines, modules) IN
    IF r.raised = "ImportError"
    THEN [raised |-> "", warned |-> TRUE, ran |-> FALSE]
    ELSE IF r.raised # ""
    THEN [raised |-> r.raised, warned |-> FALSE, ran |-> FALSE]
    ELSE IF ~exists
    THEN [raised |-> "", warned |-> TRUE, ran |-> FALSE]
    ELSE [raised |-> "", warned |-> FALSE, ran |-> TRUE]

\* the state of a run, which no call changes
run_state ==
    <<clock, target, input_files, allowed_suffixes, max_steps, caller, worker,
      workspace, loop, store, record, pre, autovar>>

\* a call to make
Pending(fn, arg) == [fn |-> fn, arg |-> arg, done |-> FALSE, ret |-> Null]

\* the settings and modules a call of get_subclass or of the view finds: the
\* flags vary for the pipeline class, over the values that are not dicts,
\* the empty dict, the dicts of one entry and two dicts of two valid flags
Registries ==
    {[pipelines |-> [n \in {"mypip"} |-> path], modules |-> Modules(PyNone)] :
        path \in {"blah", "tom_education.blah", "datetime.datetime",
                  "tom_education.models.ASYNC_STATUS_PENDING",
                  "tom_education.tests.FakePipeline"}}
    \cup {[pipelines |-> [n \in {"mypip"} |-> "tom_education.tests.FakePipeline"],
           modules |-> Modules(f)] :
             f \in {PyNone, PyInt(4), PyStr("hello"), PyList, PyDict(<<>>)}
                     \cup FlagDicts(1)
                     \cup {PyDict(<<[key |-> PyStr(a),
                                     value |-> PyDict(<<InfoEntry("default"),
                                                        InfoEntry("long_name")>>)],
                                    [key |-> PyStr(b),
                                     value |-> PyDict(<<InfoEntry("long_name"),
                                                        InfoEntry("default")>>)]>>) :
                              a \in {"myflag"},
                              b \in {"default_true", "default_false"}}}

CallInputs ==
    {Pending("validate_flags", f) :
        f \in {PyNone, PyInt(4), PyStr("hello"), PyList} \cup FlagDicts(MaxFlags)}
    \cup {Pending("get_subclass", [name |-> n, registry |-> r]) :
             n \in PipelineNames, r \in Registries}
    \cup {Pending("handle_pipeline", [form |-> f, registry |-> r]) :
             f \in {[has_name |-> FALSE, pipeline_name |-> "", keys |-> <<"action">>]}
                      \cup {[has_name |-> TRUE, pipeline_name |-> n, keys |-> k] :
                               n \in PipelineNames,
                               k \in {<<"action", "pipeline_name">>,
                                      <<"action", "pipeline_name", "myflag">>,
                                      <<"pipeline_flag_", "pipeline_name">>,
                                      <<"pipeline_flag_bogus">>,
                                      <<"pipeline_flag_myflag">>,
                                      <<"pipeline_flag_default_true",
                                        "pipeline_flag_bogus">>,
                                      <<"pipeline_flag_myflag", "pipeline_flag_bogus",
                                        "pipeline_flag_default_true">>}},
             r \in Registries}
    \cup {Pending("sorted_frames", files) :
             files \in SeqsUpTo(FitsFiles, MaxFrames)}
    \cup {Pending("make_timelapse", files) :
             files \in SeqsUpTo(FitsFiles, MaxFrames)}
    \cup {Pending("Timelapse", [n |-> n, fps |-> f, config |-> c]) :
             n \in 0..MaxFrames, f \in FpsValues, c \in TimelapseSettings}
    \cup {Pending("create_timestamped", c) : c \in TimelapseSettings}
    \cup {Pending("crop_image", [hdul |-> l, scale |-> k]) :
             l \in UNION {{<<ImageHdu(h, w)>>, <<NoDataHdu, ImageHdu(h, w)>>,
                           <<NoDataHdu>>} : h \in 0..MaxSide, w \in 0..MaxSide},
             k \in {[num |-> n, den |-> 4] : n \in (0 - 1)..5}}
    \* the targets with new data of process_observation_alerts
    \cup {Pending("process_observation_alerts", ts) :
             ts \in SeqsUpTo([old : {0, 2}, images : BOOLEAN, fails : BOOLEAN],
                             MaxTargets)}
    \cup {Pending("run_pipeline", [exists |-> x, name |-> n, registry |-> r]) :
             x \in BOOLEAN, n \in PipelineNames, r \in Registries}
    \* a timelapse of dated files, at most one of them without image data,
    \* with and without the crop (enabled or not, its scale absent, valid
    \* or out of range) and the background normalisation
    \cup UNION {{Pending("timelapse_write",
                  [files |-> f, no_data |-> n,
                   tl_settings |-> [has_crop |-> c.has_crop,
                                    crop_enabled |-> c.crop_enabled,
                                    has_scale |-> c.has_scale,
                                    scale |-> c.scale,
                                    normalise_background |-> b]]) :
             n \in {{}} \cup {{i} : i \in 1..Len(f)},
             c \in {[has_crop |-> FALSE, crop_enabled |-> FALSE,
                     has_scale |-> FALSE, scale |-> [num |-> 1, den |-> 2]],
                    [has_crop |-> TRUE, crop_enabled |-> FALSE,
                     has_scale |-> TRUE, scale |-> [num |-> 3, den |-> 4]],
                    [has_crop |-> TRUE, crop_enabled |-> TRUE,
                     has_scale |-> FALSE, scale |-> [num |-> 1, den |-> 2]],
                    [has_crop |-> TRUE, crop_enabled |-> TRUE,
                     has_scale |-> TRUE, scale |-> [num |-> 3, den |-> 4]],
                    [has_crop |-> TRUE, crop_enabled |-> TRUE,
                     has_scale |-> TRUE, scale |-> [num |-> 5, den |-> 4]]},
             b \in BOOLEAN} :
          f \in SeqsUpTo({<<(<<"2019-01-02T03:05:00">>), NoDate>>,
                          <<NoDate, (<<"2019-01-02T03:04:00">>)>>}, MaxFrames)}
    \* do_autovar with the library raising in no block or in one of them
    \cup {Pending("do_autovar", k) : k \in 0..Len(AutovarSteps)}
    \* create_timestamped of a pipeline: no flags, or a dict of up to two of
    \* the class's flags; the clock read as a second and a microsecond; the
    \* table empty or holding the process of one earlier call
    \cup {Pending("pipeline_create_timestamped",
                  [flags |-> f, now |-> t, earlier |-> e]) :
             f \in {PyNone, PyDict(<<>>)}
                     \cup {PyDict(<<[key |-> PyStr(k), value |-> v]>>) :
                              k \in {"myflag", "default_true"},
                              v \in {PyBool(TRUE), PyBool(FALSE), PyNone,
                                     PyInt(4), PyStr("hello")}}
                     \cup {PyDict(<<[key |-> PyStr("myflag"), value |-> PyBool(a)],
                                    [key |-> PyStr("default_true"),
                                     value |-> PyBool(b)]>>) :
                              a \in BOOLEAN, b \in BOOLEAN},
             t \in [sec : 1..MaxClock, usec : 0..1],
             e \in {{}} \cup {{t0} : t0 \in [sec : 1..MaxClock, usec : 0..1]}}

InitCalls ==
    /\ call \in CallInputs
    /\ autovar = NoWorker
    /\ target = TargetPk
    /\ input_files = <<"data/myarchive.tar">>
    /\ allowed_suffixes = NotDeclared
    /\ max_steps = MaxWorkSteps
    /\ Created

Return(value) ==
    /\ ~call.done
    /\ call' = [fn |-> call.fn, arg |-> call.arg, done |-> TRUE, ret |-> value]
    /\ UNCHANGED run_state

ValidateFlags ==
    /\ call.fn = "validate_flags"
    /\ Return(validate_flags(call.arg))

GetSubclass ==
    /\ call.fn = "get_subclass"
    /\ Return(get_subclass(call.arg.name, call.arg.registry.pipelines,
                           call.arg.registry.modules))

HandlePipeline ==
    /\ call.fn = "handle_pipeline"
    /\ Return(handle_pipeline(call.arg.form, call.arg.registry.pipelines,
                              call.arg.registry.modules))

SortedFrames ==
    /\ call.fn = "sorted_frames"
    /\ Return(sorted_frames(call.arg))

\* the task make_timelapse (tasks.py lines 42-53)
MakeTimelapse ==
    /\ call.fn = "make_timelapse"
    /\ \E now \in Now : Return(make_timelapse(call.arg, now))

\* a timelapse is made with the Timelapse class
MakeTimelapseProduct ==
    /\ call.fn = "Timelapse"
    /\ \E rejected \in BOOLEAN :
          Return(Timelapse(call.arg.n, call.arg.fps, call.arg.config, rejected))

\* a timelapse product is created from the settings
CreateTimestamped ==
    /\ call.fn = "create_timestamped"
    /\ Return(create_timestamped(call.arg))

CropImage ==
    /\ call.fn = "crop_image"
    /\ Return(crop_image(call.arg.hdul, call.arg.scale))

\* create_timestamped of a pipeline, and line 58 of run() for the process
\* it returns.  The rows in the table were made by earlier calls.
PipelineCreateTimestamped ==
    /\ call.fn = "pipeline_create_timestamped"
    /\ \A t0 \in call.arg.earlier :
          \/ t0.sec < call.arg.now.sec
          \/ t0.sec = call.arg.now.sec /\ t0.usec <= call.arg.now.usec
    /\ LET existing ==
              {pipeline_create_timestamped({}, t0, PyNone).identifier :
                  t0 \in call.arg.earlier}
           pipe == pipeline_create_timestamped(existing, call.arg.now,
                                               call.arg.flags)
       IN Return([pipe |-> pipe,
                  existing |-> existing,
                  kwargs |-> IF pipe.raised = ""
                             THEN run_flags(pipe.flags_json) ELSE PyNone])

\* run() of a new AutovarProcess reaches do_autovar (line 52)
DoAutovar ==
    /\ call.fn = "do_autovar"
    /\ Return(do_autovar(NewAutovarProcess, NewAutovarProcess, 1, call.arg))

\* TimelapseProcess.run for a product with the frames given: fits.open
\* gives an image of 4 rows and 6 columns, or a primary HDU without data
WriteTimelapse ==
    /\ call.fn = "timelapse_write"
    /\ LET hduls == [i \in 1..Len(call.arg.files) |->
                       IF i \in call.arg.no_data THEN <<NoDataHdu>>
                       ELSE <<NoDataHdu, ImageHdu(4, 6)>>]
       IN Return(timelapse_write(call.arg.files, hduls, call.arg.tl_settings))

RunPipeline ==
    /\ call.fn = "run_pipeline"
    /\ Return(run_pipeline(call.arg.exists, call.arg.name,
                           call.arg.registry.pipelines,
                           call.arg.registry.modules))

\* the command process_observation_alerts, from line 41 on
ProcessObservationAlerts ==
    /\ call.fn = "process_observation_alerts"
    /\ Return(make_timelapses(call.arg))

NextCalls ==
    \/ ProcessObservationAlerts
    \/ RunPipeline
    \/ WriteTimelapse
    \/ DoAutovar
    \/ PipelineCreateTimestamped
    \/ ValidateFlags
    \/ GetSubclass
    \/ HandlePipeline
    \/ SortedFrames
    \/ MakeTimelapse
    \/ MakeTimelapseProduct
    \/ CreateTimestamped
    \/ CropImage

SpecCalls == InitCalls /\ [][NextCalls]_vars


(***************************************************************************)
(* Properties                                                              *)
(***************************************************************************)

\* C1: whenever the persisted row has status 'created' or 'failed' (every
\* such row was written by a successful save()), its terminal_timestamp is
\* set, whichever operation assigned the status.
C1_TerminalSaveStamps ==
    db.status \in ASYNC_TERMINAL_STATES => db.terminal_timestamp # Null

\* in the first run the work method has assigned 'failed' itself and saved
C1_Witness ==
    /\ runs = 1 /\ pc = "work"
    /\ db.status = ASYNC_STATUS_FAILED
    /\ db.failure_message = ""
    /\ db.terminal_timestamp # Null

\* C2: once a save with a terminal status has succeeded, no later save
\* changes the persisted terminal_timestamp.
C2_TimestampKept ==
    [][saved_terminal => db'.terminal_timestamp = db.terminal_timestamp]_vars

\* C3: as long as no save with status 'created' or 'failed' has succeeded,
\* terminal_timestamp is None, in the row and in a worker's instance whose
\* status is not terminal.
C3_NoneUntilTerminal ==
    ~saved_terminal =>
        /\ db.terminal_timestamp = Null
        /\ proc.status \notin ASYNC_TERMINAL_STATES
              => proc.terminal_timestamp = Null

\* the work method has saved the row through log(), and no terminal save
\* has been made
C3_Witness ==
    /\ ~saved_terminal
    /\ pc = "work" /\ steps > 0
    /\ db.logs # NoLogs
    /\ db.status = ASYNC_STATUS_PENDING

\* C4: once the persisted status is 'created' or 'failed', no operation
\* changes it.
C4_TerminalAbsorbing ==
    [][db.status \in ASYNC_TERMINAL_STATES => db'.status = db.status]_vars

\* C5: when run_process is over it has returned normally and the persisted
\* status is 'created' or 'failed'.
C5_RunProcessEndsTerminal ==
    pc = "done" =>
        /\ outcome = "returned"
        /\ db.status \in ASYNC_TERMINAL_STATES

\* C6: when run_process is over after run() raised AsyncError(m), the row is
\* 'failed' with failure_message m; after any other exception it is 'failed'
\* with the generic message.
C6_FailureMessageRecorded ==
    /\ (pc = "done" /\ exc.kind = "AsyncError") =>
          /\ db.status = ASYNC_STATUS_FAILED
          /\ db.failure_message = exc.msg
    /\ (pc = "done" /\ exc.kind = "Exception") =>
          /\ db.status = ASYNC_STATUS_FAILED
          /\ db.failure_message = "An unexpected error occurred"
          /\ ~contains(db.failure_message, exc.msg)

\* C7: send_task never raises; when the job could not be queued the row is
\* 'failed' with 'Failed to submit job' and run() is never invoked; when it
\* was queued send_task has written nothing, to the row or to its instance.
C7_SendTask ==
    sent =>
        /\ ~send_raised
        /\ IF enqueued
           THEN cproc = NewProcess /\ (runs = 0 => db = NewProcess)
           ELSE /\ db.status = ASYNC_STATUS_FAILED
                /\ db.failure_message = "Failed to submit job"
                /\ cproc = db
                /\ runs = 0 /\ work_called = 0 /\ pc = "idle"

\* the queue was unreachable
C7_Witness ==
    /\ sent
    /\ ~enqueued
    /\ db.status = ASYNC_STATUS_FAILED
    /\ db.terminal_timestamp = clock

\* C8: run() of a process with no target or no input files raises
\* AsyncError and changes nothing: no workspace, no work method call, no
\* data product, reduced datum or group, and the row and the instance are
\* as they were.
C8_GuardChangesNothing ==
    [][(pc = "run" /\ pc' # "run" /\ (target = Null \/ input_files = <<>>)) =>
          /\ pc' = "except"
          /\ exc'.kind = "AsyncError"
          /\ UNCHANGED <<tmpdir, tmpdirs_made, work_called>>
          /\ UNCHANGED <<products, reduced, groups>>
          /\ UNCHANGED <<db, proc>>]_vars

\* run() has raised for a process with a target and no input files
C8_Witness ==
    /\ pc = "except"
    /\ target # Null
    /\ input_files = <<>>
    /\ exc = [kind |-> "AsyncError", msg |-> "No input files to process"]

\* C9 as stated: whenever allowed_suffixes is declared, run() on a process
\* with a target and input files raises AsyncError iff some input's base
\* filename ends with none of the suffixes; the message holds such a
\* filename and the comma-separated suffixes, and neither the workspace nor
\* the work method has been touched.
C9_SuffixCheckWhenDeclared ==
    [][(/\ pc = "run" /\ pc' # "run"
        /\ target # Null /\ input_files # <<>>
        /\ allowed_suffixes # NotDeclared) =>
          LET suffixes == allowed_suffixes[1]
              name(i) == basename(input_files[i])
              ends(n, x) ==
                  /\ Len(x) <= Len(n)
                  /\ SubSeq(n, Len(n) - Len(x) + 1, Len(n)) = x
              bad == {i \in 1..Len(input_files) :
                         \A j \in 1..Len(suffixes) : ~ends(name(i), suffixes[j])}
          IN IF bad = {}
             THEN pc' = "work"
             ELSE /\ pc' = "except"
                  /\ exc'.kind = "AsyncError"
                  /\ \E i \in bad : contains(exc'.msg, name(i))
                  /\ contains(exc'.msg, join(suffixes))
                  /\ UNCHANGED <<tmpdir, tmpdirs_made, work_called>>]_vars

\* C9 amended: the same, when allowed_suffixes is declared with at least
\* one suffix.
C9_SuffixCheckWhenNonEmpty ==
    [][(/\ pc = "run" /\ pc' # "run"
        /\ target # Null /\ input_files # <<>>
        /\ allowed_suffixes # NotDeclared
        /\ allowed_suffixes[1] # <<>>) =>
          LET suffixes == allowed_suffixes[1]
              name(i) == basename(input_files[i])
              ends(n, x) ==
                  /\ Len(x) <= Len(n)
                  /\ SubSeq(n, Len(n) - Len(x) + 1, Len(n)) = x
              bad == {i \in 1..Len(input_files) :
                         \A j \in 1..Len(suffixes) : ~ends(name(i), suffixes[j])}
          IN IF bad = {}
             THEN pc' = "work"
             ELSE /\ pc' = "except"
                  /\ exc'.kind = "AsyncError"
                  /\ \E i \in bad : contains(exc'.msg, name(i))
                  /\ contains(exc'.msg, join(suffixes))
                  /\ UNCHANGED <<tmpdir, tmpdirs_made, work_called>>]_vars

\* x.tar.gz has been rejected under ['.tar', '.7z'] with both in the message
C9_Witness ==
    /\ pc = "except"
    /\ allowed_suffixes = << <<".tar", ".7z">> >>
    /\ \E i \in 1..Len(input_files) : input_files[i] = "data/x.tar.gz"
    /\ contains(exc.msg, "'x.tar.gz'")
    /\ contains(exc.msg, "(.tar, .7z)")

\* C10: after a successful run() whose work method returned m DataProduct
\* and k ReducedDatum descriptors, as tuples or PipelineOutput values, the
\* store holds exactly m more data products and k more reduced data; the
\* one made from a descriptor belongs to the process's target, is identified
\* '<identifier>_<base filename>', and carries the file's content and the
\* descriptor's tag ('' when omitted).
C10_OutputsMaterialized ==
    (pc = "done" /\ runs > 0 /\ exc = NoException) =>
        LET type(i) == outputs[i].items[2]
            path(i) == outputs[i].items[1]
            tag(i) == IF Len(outputs[i].items) = 3 THEN outputs[i].items[3]
                      ELSE ""
            ident(i) == "someprocess_" \o basename(path(i))
            of(t) == {i \in 1..Len(outputs) : type(i) = t}
            rank(i) == Cardinality({j \in of(type(i)) : j <= i})
        IN
        /\ Len(products) = pre.products + Cardinality(of("DataProduct"))
        /\ Len(reduced) = pre.reduced + Cardinality(of("ReducedDatum"))
        /\ \A i \in of("DataProduct") :
              LET prod == products[pre.products + rank(i)] IN
              /\ prod.product_id = ident(i)
              /\ prod.target = target
              /\ prod.tag = tag(i)
              /\ prod.data = read(path(i))
        /\ \A i \in of("ReducedDatum") :
              LET rd == reduced[pre.reduced + rank(i)] IN
              /\ rd.source_name = ident(i)
              /\ rd.target = target
              /\ rd.data_type = tag(i)
              /\ rd.value = read(path(i))

\* a run has succeeded on a tuple for a reduced datum followed by a tuple
\* without tag for a data product, whose file is in a subdirectory
C10_Witness ==
    /\ pc = "done" /\ runs > 0 /\ exc = NoException
    /\ Len(outputs) = 2
    /\ outputs[1].form = "tuple"
    /\ outputs[1].items[2] = "ReducedDatum"
    /\ outputs[2] = [form |-> "tuple",
                     items |-> <<"plots/file2.hs", "DataProduct">>]
    /\ Len(products) = pre.products + 1
    /\ products[Len(products)].product_id = "someprocess_file2.hs"
    /\ products[Len(products)].tag = ""

\* C11: after a successful run() the store holds one more group exactly when
\* the work method returned at least one DataProduct descriptor; that group
\* is named '<identifier>_outputs', holds exactly the data products this run
\* created, and is the group of the process, in memory and in the row.
\* Otherwise no group was created and the process's group is what it was
\* when run() was called (None for a process that never had one).
C11_OutputGroup ==
    (pc = "done" /\ runs > 0 /\ exc = NoException) =>
        LET dps == {i \in 1..Len(outputs) : outputs[i].items[2] = "DataProduct"}
            made == (pre.products + 1)..Len(products)
            g == Len(groups)
        IN IF dps # {}
           THEN /\ Len(groups) = pre.groups + 1
                /\ groups[g].name = "someprocess_outputs"
                /\ \A i \in 1..Len(products) :
                      (g \in products[i].group) <=> (i \in made)
                /\ proc.group = g
                /\ db.group = g
           ELSE /\ Len(groups) = pre.groups
                /\ proc.group = pre.group
                /\ db.group = pre.group
                /\ pre.groups = 0 => db.group = Null

\* the second of two successful runs, each with one data product, has made
\* its own group for its own product
C11_Witness ==
    /\ pc = "done" /\ runs = 2 /\ exc = NoException
    /\ Len(products) = 2 /\ pre.products = 1
    /\ Len(groups) = 2
    /\ products[1].group = {1}
    /\ products[2].group = {2}
    /\ db.group = 2

\* C12: when the outputs hold a descriptor that is neither a DataProduct nor
\* a ReducedDatum one and run() has got as far as it, run() has raised
\* AsyncError "Invalid output type '<type>'" for the first such descriptor;
\* the store holds the objects made from the descriptors before it, and
\* nothing made from it or from a later one, and no group; this stays so
\* when run_process has handled the error.
C12_InvalidOutputType ==
    LET type(i) == outputs[i].items[2]
        invalid == {i \in 1..Len(outputs) :
                       type(i) \notin {"DataProduct", "ReducedDatum"}}
    IN (/\ pc \in {"except", "done"}
        /\ invalid # {}
        /\ exc.kind # "Exception") =>
          LET k == CHOOSE i \in invalid : \A j \in invalid : i <= j
              before(t) == {i \in 1..(k - 1) : type(i) = t}
          IN /\ exc.kind = "AsyncError"
             /\ exc.msg = "Invalid output type '" \o type(k) \o "'"
             /\ Len(products) = pre.products + Cardinality(before("DataProduct"))
             /\ Len(reduced) = pre.reduced + Cardinality(before("ReducedDatum"))
             /\ \A i \in before("DataProduct") :
                   \E j \in (pre.products + 1)..Len(products) :
                       products[j].data = read(outputs[i].items[1])
             /\ \A i \in before("ReducedDatum") :
                   \E j \in (pre.reduced + 1)..Len(reduced) :
                       reduced[j].value = read(outputs[i].items[1])
             /\ Len(groups) = pre.groups
             /\ tmpdir = Null

\* run_process has recorded the failure of a run whose outputs were a data
\* product followed by a descriptor of type 'cheese': the product is kept
C12_Witness ==
    /\ pc = "done"
    /\ Len(outputs) = 2
    /\ outputs[1].items[2] = "DataProduct"
    /\ outputs[2].items[2] = "cheese"
    /\ exc = [kind |-> "AsyncError", msg |-> "Invalid output type 'cheese'"]
    /\ Len(products) = pre.products + 1
    /\ products[Len(products)].data = "content of file1.csv"
    /\ db.status = ASYNC_STATUS_FAILED
    /\ db.failure_message = "Invalid output type 'cheese'"

\* C13: a workspace directory exists only while run() is inside its
\* with-block (the work method, the output loop, the group loop): it is gone
\* once run() has returned or raised, whatever the step that raised; and
\* every directory run() allocates is a new one, one per call of the work
\* method.
C13_WorkspaceReleased ==
    /\ [](/\ pc \notin {"work", "outputs", "group"} => tmpdir = Null
          /\ pc \in {"work", "outputs", "group"} => tmpdir = tmpdirs_made
          /\ tmpdirs_made = work_called)
    /\ [][(tmpdir' # Null /\ tmpdir' # tmpdir) =>
              /\ tmpdir = Null
              /\ tmpdir' > tmpdirs_made
              /\ tmpdirs_made' = tmpdir']_vars

\* the second run has raised out of the work method, with its own workspace
\* allocated, and the directory is gone
C13_Witness ==
    /\ pc = "except"
    /\ runs = 2 /\ tmpdirs_made = 2
    /\ exc = [kind |-> "AsyncError", msg |-> "could not find observation date"]
    /\ outputs = <<>>
    /\ tmpdir = Null

\* C14: the persisted logs are at every moment the messages given to log()
\* so far, in call order, each followed by a newline (None before the first
\* call), and so is the worker's copy while it runs; no step of run() or of
\* run_process changes logs other than by appending: the text before a step
\* is a prefix of the text after it.
C14_LogsAppendOnly ==
    /\ [](LET lines[i \in 0..Len(logged)] ==
                  IF i = 0 THEN "" ELSE lines[i - 1] \o logged[i] \o "\n"
          IN /\ db.logs = IF logged = <<>> THEN NoLogs
                          ELSE <<lines[Len(logged)]>>
             /\ pc # "idle" => proc.logs = db.logs)
    /\ [][LET text(o) == IF o.logs = NoLogs THEN "" ELSE o.logs[1]
          IN /\ Len(text(db)) <= Len(text(db'))
             /\ SubSeq(text(db'), 1, Len(text(db))) = text(db)
             /\ db.logs # NoLogs => db'.logs # NoLogs]_vars

\* two runs have logged once each and the second has failed: the row holds
\* both lines in call order
C14_Witness ==
    /\ pc = "done" /\ runs = 2
    /\ pre.group = Null
    /\ logged = <<"doing the thing", "and another thing">>
    /\ db.logs = <<"doing the thing\nand another thing\n">>
    /\ db.status = ASYNC_STATUS_FAILED

\* C15: when the work method enters `with self.update_status(s):` with a
\* progress label s, the body of the with-block starts (run() goes on) with
\* status s in the worker's instance and in the persisted row.
C15_UpdateStatusPersists ==
    [][(/\ pc = "work"
        /\ steps' = steps + 1
        /\ UNCHANGED logged
        /\ proc'.status = ProgressLabel) =>
          /\ pc' = "work"
          /\ proc'.status = ProgressLabel
          /\ db'.status = ProgressLabel]_vars

\* C16: get_subclass(name) for a configured name raises
\* InvalidPipelineError when the path cannot be imported, when the object is
\* not a class, when the class is not a PipelineProcess subclass, and when
\* validate_flags does not accept its flags; otherwise it returns the
\* imported class.  It raises nothing else.
C16_GetSubclass ==
    (call.fn = "get_subclass" /\ call.done
        /\ call.arg.name \in DOMAIN call.arg.registry.pipelines) =>
        LET path == call.arg.registry.pipelines[call.arg.name]
            modules == call.arg.registry.modules
            imported == path \in DOMAIN modules
            misconfigured ==
                \/ ~imported
                \/ modules[path].kind # "class"
                \/ ~modules[path].pipeline
                \/ validate_flags(modules[path].flags) # "returned"
        IN IF misconfigured
           THEN call.ret.raised = "InvalidPipelineError"
           ELSE call.ret.raised = "" /\ call.ret.cls = modules[path]

\* C17: get_subclass(name) for a name that is not configured raises
\* KeyError; the pipeline action of the view answers such a name, and a
\* request without pipeline_name, with status 400, and has created no process
\* and submitted no job.
C17_UnknownPipelineName ==
    /\ (call.fn = "get_subclass" /\ call.done
           /\ call.arg.name \notin DOMAIN call.arg.registry.pipelines) =>
          call.ret.raised = "KeyError"
    /\ (call.fn = "handle_pipeline" /\ call.done
           /\ \/ ~call.arg.form.has_name
              \/ call.arg.form.pipeline_name
                     \notin DOMAIN call.arg.registry.pipelines) =>
          /\ call.ret.status_code = 400
          /\ call.ret.raised = ""
          /\ call.ret.created = 0
          /\ call.ret.submitted = 0

\* the view has answered the name 'blah', which is not configured, while
\* 'mypip' is configured with a usable pipeline class
C17_Witness ==
    /\ call.fn = "handle_pipeline" /\ call.done
    /\ call.arg.form.has_name
    /\ call.arg.form.pipeline_name = "blah"
    /\ call.arg.registry.pipelines["mypip"] = "tom_education.tests.FakePipeline"
    /\ call.arg.registry.modules["tom_education.tests.FakePipeline"].flags = PyNone
    /\ call.ret.status_code = 400

C19_NoWhitespaceInKeys ==
    (call.fn = "validate_flags" /\ call.done /\ call.arg.type = "dict"
        /\ \A i \in 1..Len(call.arg.items) :
              call.arg.items[i].key.type = "str") =>
        LET flags == call.arg
            name(i) == flags.items[i].key.val
            spaced(i) ==
                \E c \in 1..Len(name(i)) :
                    SubSeq(name(i), c, c) \in {" ", "\t", "\n"}
        IN /\ (\E i \in 1..Len(flags.items) : spaced(i))
                => call.ret = "AssertionError"
           /\ call.ret = "returned"
                => \A i \in 1..Len(flags.items) : name(i) # "" /\ ~spaced(i)

\* C20: when every frame's file has the date field, sorted_frames returns
\* the frames, each once, in non-decreasing order of the date parsed from
\* the file, frames with equal dates in their original order.
C20_SortedFrames ==
    (/\ call.fn = "sorted_frames" /\ call.done
     /\ \A i \in 1..Len(call.arg) : \E h \in 1..Len(call.arg[i]) :
           call.arg[i][h] # NoDate) =>
        LET files == call.arg
            out == call.ret.value
            key(i) == sort_key(files[out[i]])
        IN /\ call.ret.raised = ""
           /\ Len(out) = Len(files)
           /\ \A f \in 1..Len(files) :
                 Cardinality({i \in 1..Len(out) : out[i] = f}) = 1
           /\ \A i, j \in 1..Len(out) :
                 i < j => /\ datetime_le(key(i), key(j))
                          /\ key(i) = key(j) => out[i] < out[j]

\* frames with the dates 03:07, 03:04, 03:07 have come back as second,
\* first, third
C20_Witness ==
    /\ call.fn = "sorted_frames" /\ call.done
    /\ call.arg = << <<(<<"2019-01-02T03:07:00">>), NoDate>>,
                     <<(<<"2019-01-02T03:04:00">>), NoDate>>,
                     <<(<<"2019-01-02T03:07:00">>),
                       (<<"2019-01-02T03:04:00">>)>> >>
    /\ call.ret.value = <<2, 1, 3>>

\* C21: when some frame's file has the date field in none of its HDUs,
\* TimelapseProcess.run raises AsyncError whose message names such a file
\* and says the observation date could not be found, no frame is appended,
\* and run_process leaves the row 'failed' with that message as
\* failure_message; when every file has the field in some HDU, the first
\* or a later one, the run does not fail.
C21_NoObservationDate ==
    (call.fn = "make_timelapse" /\ call.done /\ call.arg # <<>>) =>
        LET files == call.arg
            undated == {i \in 1..Len(files) :
                           \A h \in 1..Len(files[i]) : files[i][h] = NoDate}
            r == call.ret
        IN IF undated # {}
           THEN /\ r.exc.kind = "AsyncError"
                /\ \E i \in undated :
                      contains(r.exc.msg, "'" \o FrameNames[i] \o "'")
                /\ contains(r.exc.msg, "could not find observation date")
                /\ r.appended = <<>>
                /\ ~r.escaped
                /\ r.row.status = "failed"
                /\ r.row.failure_message = r.exc.msg
           ELSE /\ r.exc = NoException
                /\ ~r.escaped
                /\ r.row.status = "created"
                /\ r.row.failure_message = ""

\* a timelapse of a file dated in its second HDU only and of a file without
\* date has failed, naming the second file
C21_Witness ==
    /\ call.fn = "make_timelapse" /\ call.done
    /\ call.arg = << <<NoDate, (<<"2019-01-02T03:05:00">>)>>,
                     <<NoDate, NoDate>> >>
    /\ call.ret.row.status = "failed"
    /\ call.ret.row.failure_message =
          "Error in file 'test1.fits.fz': could not find observation date in FITS header 'DATE-OBS'"

\* C22: with an fps that is not positive, given to Timelapse or configured
\* in the settings, making the timelapse raises AsyncError before any frame
\* is appended and without creating a product, and the fps is not replaced
\* by a default.
C22_InvalidFps ==
    (/\ call.done
     /\ \/ /\ call.fn = "Timelapse"
           /\ call.arg.n > 0
           /\ LET given == IF call.arg.fps # PyNone THEN call.arg.fps
                           ELSE IF call.arg.config.has_fps
                           THEN call.arg.config.fps
                           ELSE PyInt(16)
              IN given.val <= 0
        \/ /\ call.fn = "create_timestamped"
           /\ call.arg.has_fps
           /\ call.arg.fps.val <= 0) =>
        /\ call.ret.exc.kind = "AsyncError"
        /\ call.ret.appended = 0
        /\ ~call.ret.product
        /\ call.ret.fps.val <= 0

C24_PreconditionOrder ==
    [][(pc = "run" /\ pc' = "except") =>
          /\ exc'.kind = "AsyncError"
          /\ (target = Null) => exc'.msg = MsgNoTarget
          /\ (target # Null /\ input_files = <<>>) => exc'.msg = MsgNoInput
          /\ (target # Null /\ input_files # <<>>) =>
                /\ suffixes_checked(allowed_suffixes)
                /\ \E i \in 1..Len(input_files) :
                      /\ \A k \in 1..Len(allowed_suffixes[1]) :
                            ~endswith(input_files[i], allowed_suffixes[1][k])
                      /\ contains(exc'.msg, "'" \o basename(input_files[i]) \o "'")
                /\ SubSeq(exc'.msg, 1, 23) = "Error running pipeline "
                /\ exc'.msg \notin {MsgNoTarget, MsgNoInput}
          /\ MsgNoTarget # MsgNoInput
          /\ proc'.status = proc.status
          /\ db' = db]_vars

\* a process without target and without input files, of a class that
\* declares suffixes, has failed with the missing-target error
C24_Witness ==
    /\ pc = "except"
    /\ target = Null
    /\ input_files = <<>>
    /\ suffixes_checked(allowed_suffixes)
    /\ exc = AsyncError(MsgNoTarget)
    /\ db.status = ASYNC_STATUS_PENDING

\* C25: within one run() the persisted status becomes 'created' only when
\* the work method has returned, every output it returned has its row, the
\* data products of the run are all members of the new group the record
\* refers to, and the workspace is gone; the saves of log() and of
\* update_status() are made while the work method runs and leave the
\* status non-terminal or as it was; the terminal write ends the run and
\* nothing is written after it.
C25_CreatedLast ==
    [][/\ (db.status # ASYNC_STATUS_CREATED /\ db'.status = ASYNC_STATUS_CREATED) =>
             /\ pc \in {"outputs", "group"}
             /\ pc' = "done"
             /\ Len(products') + Len(reduced')
                   = pre.products + pre.reduced + Len(outputs)
             /\ (Len(products') > pre.products) =>
                   /\ db'.group > pre.groups
                   /\ db'.group <= Len(groups')
                   /\ \A k \in (pre.products + 1)..Len(products') :
                         db'.group \in products'[k].group
             /\ tmpdir' = Null
       /\ (db' # db) =>
             \/ /\ pc = "work"
                /\ pc' \in {"work", "except"}
                /\ \/ db'.status = db.status
                   \/ db'.status \notin ASYNC_TERMINAL_STATES
             \/ /\ pc \in {"outputs", "group", "except"}
                /\ pc' = "done"
                /\ db'.status \in ASYNC_TERMINAL_STATES
       /\ (pc = "done" /\ pc' = "done") => db' = db]_vars

\* a run whose work method logged and returned a data product has ended
\* with 'created'
C25_Witness ==
    /\ pc = "done"
    /\ runs = 1
    /\ db.status = ASYNC_STATUS_CREATED
    /\ logged # <<>>
    /\ db.logs # NoLogs
    /\ Len(products) = 1
    /\ db.group = 1
    /\ products[1].group = {1}
    /\ tmpdir = Null

\* C26: whenever the persisted record refers to a group, every data
\* product the run has created is a member of that group, whichever way
\* run() ended.
C26_GroupComplete ==
    (runs = 1 /\ db.group # Null) =>
        \A k \in 1..Len(products) : db.group \in products[k].group

\* C27: the persisted record has one writer: when send_task has saved its
\* instance the job is not queued, no worker has run or is running the
\* process and the row is what send_task saved; when a worker has run the
\* process the job was queued and send_task has written nothing; and a row
\* that differs from the created one was written by one of the two.
C27_SingleWriter ==
    /\ (cproc # NewProcess) =>
          /\ ~enqueued
          /\ runs = 0
          /\ pc = "idle"
          /\ proc = NewProcess
          /\ db = cproc
    /\ (runs > 0) => (enqueued /\ cproc = NewProcess)
    /\ (db # NewProcess) => (runs > 0 \/ db = cproc)

\* send_task has saved its instance, and the job is not queued
C27_Witness ==
    /\ sent
    /\ ~enqueued
    /\ cproc.failure_message = MsgSubmitFailed
    /\ db = cproc
    /\ runs = 0

\* C28: once the run of a process has ended, running another process in
\* the same worker leaves the persisted record of the first as it is: its
\* logs, its status and its terminal_timestamp.
C28_NoSharedState ==
    [][\A p \in 1..MaxProcesses :
          (p \in autovar.ran /\ autovar.running # p) =>
              autovar'.rows[p] = autovar.rows[p]]_vars

\* C29: in every persisted state a failure_message that is not empty comes
\* with the status 'failed'.
C29_MessageImpliesFailed ==
    (db.failure_message # "") => db.status = ASYNC_STATUS_FAILED

C31_FlagsRoundTrip ==
    (call.fn = "pipeline_create_timestamped" /\ call.done
        /\ call.ret.pipe.raised = "") =>
       IF call.arg.flags.type = "dict" /\ call.arg.flags.items # <<>>
       THEN /\ call.ret.pipe.flags_json # PyNone
            /\ call.ret.kwargs = call.arg.flags
       ELSE /\ call.ret.pipe.flags_json = PyNone
            /\ call.ret.kwargs = PyDict(<<>>)

\* a process created with two flags, one of them False, has been run
C31_Witness ==
    /\ call.fn = "pipeline_create_timestamped"
    /\ call.done
    /\ call.ret.pipe.raised = ""
    /\ call.arg.flags.type = "dict"
    /\ Len(call.arg.flags.items) = 2
    /\ call.arg.flags.items[2].value = PyBool(FALSE)
    /\ call.ret.kwargs = call.arg.flags

\* C37: every call of create_timestamped returns a new process whose
\* identifier differs from every identifier in the table, also when an
\* earlier call for the same class and target was made in the same second.
C37_DistinctIdentifier ==
    (call.fn = "pipeline_create_timestamped" /\ call.done) =>
       /\ call.ret.pipe.raised = ""
       /\ call.ret.pipe.identifier \notin call.ret.existing

\* C32: the process that the pipeline action of the view creates stores a
\* flags mapping with exactly the flag names the class declares, a flag
\* being True exactly when the form data has the key 'pipeline_flag_<name>'
\* and False otherwise; other keys of the form are ignored; for a class
\* that declares no flags nothing is stored.
C32_FormFlags ==
    (call.fn = "handle_pipeline" /\ call.done /\ call.ret.status_code = 200) =>
       LET declared ==
               call.arg.registry.modules["tom_education.tests.FakePipeline"].flags
           stored == run_flags(call.ret.flags_json)
           keys == call.arg.form.keys
       IN IF declared.type = "dict" /\ declared.items # <<>>
          THEN /\ call.ret.flags_json # PyNone
               /\ Len(stored.items) = Len(declared.items)
               /\ \A i \in 1..Len(declared.items) :
                     /\ stored.items[i].key = declared.items[i].key
                     /\ stored.items[i].value =
                           PyBool(\E j \in 1..Len(keys) :
                                     keys[j] = "pipeline_flag_"
                                                  \o declared.items[i].key.val)
          ELSE call.ret.flags_json = PyNone

\* a form with one of the two flags of the class and a key that is not a
\* flag of the class has been handled
C32_Witness ==
    /\ call.fn = "handle_pipeline"
    /\ call.done
    /\ call.ret.status_code = 200
    /\ call.arg.form.keys = <<"pipeline_flag_default_true", "pipeline_flag_bogus">>
    /\ run_flags(call.ret.flags_json) =
          PyDict(<<[key |-> PyStr("myflag"), value |-> PyBool(FALSE)],
                   [key |-> PyStr("default_true"), value |-> PyBool(TRUE)]>>)

\* C33: while do_autovar executes one of its sub-steps, the status of the
\* row is the label of that sub-step: the label is assigned and saved
\* before the sub-step starts.
C33_StatusDuringStep ==
    (call.fn = "do_autovar" /\ call.done) =>
       \A i \in 1..Len(call.ret.during) :
          call.ret.during[i].status = call.ret.during[i].label

\* C34: for every frame of a timelapse, when the crop and the background
\* normalisation are both enabled the crop is applied first and the
\* normalisation second; when one of them is enabled only that one is
\* applied, once; when neither is, the frame's own file is converted.
C34_ModifierOrder ==
    (call.fn = "timelapse_write" /\ call.done) =>
       LET s == call.arg.tl_settings
           crop == s.has_crop /\ s.crop_enabled
           normalise == s.normalise_background
       IN \A i \in 1..Len(call.ret.appended) :
             LET a == call.ret.appended[i] IN
             /\ (crop /\ normalise) =>
                   a.applied = <<"crop_image", "normalise_background">>
             /\ (crop /\ ~normalise) => a.applied = <<"crop_image">>
             /\ (~crop /\ normalise) => a.applied = <<"normalise_background">>
             /\ (~crop /\ ~normalise) =>
                   a.applied = <<>> /\ a.converted = "product.data.path"
             /\ (crop \/ normalise) => a.converted = "tmp.fits"

\* a timelapse of two frames has been written with both modifiers
C34_Witness ==
    /\ call.fn = "timelapse_write"
    /\ call.done
    /\ call.arg.tl_settings.crop_enabled
    /\ call.arg.tl_settings.normalise_background
    /\ call.ret.exc = NoException
    /\ Len(call.ret.appended) = 2
    /\ call.ret.appended[2].applied = <<"crop_image", "normalise_background">>

\* C35: a timelapse that is written gets exactly one frame for each input
\* file, in the order of sorted_frames: by observation date, files of the
\* same date in the order of the query.
C35_OneFramePerInput ==
    (call.fn = "timelapse_write" /\ call.done /\ call.ret.exc = NoException) =>
       LET files == call.arg.files
           frames == [i \in 1..Len(call.ret.appended) |->
                         call.ret.appended[i].frame]
       IN /\ Len(frames) = Len(files)
          /\ \A f \in 1..Len(files) : \E i \in 1..Len(frames) : frames[i] = f
          /\ \A i, j \in 1..Len(frames) :
                i < j =>
                   /\ datetime_le(sort_key(files[frames[i]]),
                                  sort_key(files[frames[j]]))
                   /\ sort_key(files[frames[i]]) = sort_key(files[frames[j]])
                         => frames[i] < frames[j]
          /\ frames = sorted_frames(files).value

\* three files, the second the earliest and the other two of one date,
\* have been written as the frames 2, 1, 3
C35_Witness ==
    /\ call.fn = "timelapse_write"
    /\ call.done
    /\ call.ret.exc = NoException
    /\ call.arg.files = << <<(<<"2019-01-02T03:05:00">>), NoDate>>,
                           <<NoDate, (<<"2019-01-02T03:04:00">>)>>,
                           <<(<<"2019-01-02T03:05:00">>), NoDate>> >>
    /\ [i \in 1..3 |-> call.ret.appended[i].frame] = <<2, 1, 3>>

\* C36: when a modifier of a frame raises ValueError, the run fails with an
\* AsyncError whose message names the file of that frame.
C36_ErrorNamesFile ==
    (call.fn = "timelapse_write" /\ call.done /\ call.arg.files # <<>>
        /\ call.ret.exc # NoException) =>
       /\ call.ret.exc.kind = "AsyncError"
       /\ \E i \in 1..Len(call.arg.files) :
             contains(call.ret.exc.msg, "'" \o frame_name(i) \o "'")

\* C38: no exception leaves run_pipeline; when the name does not resolve
\* to a pipeline class (unknown name, failed import, not a pipeline class)
\* or no row has the primary key, it prints a warning and returns without
\* calling run_process.
C38_RunPipelineReturns ==
    (call.fn = "run_pipeline" /\ call.done) =>
       LET resolved ==
               get_subclass(call.arg.name, call.arg.registry.pipelines,
                            call.arg.registry.modules).raised = ""
       IN /\ call.ret.raised = ""
          /\ (~resolved \/ ~call.arg.exists) =>
                call.ret.warned /\ ~call.ret.ran

\* C39: when process_observation_alerts has completed, every target with
\* new data has exactly one timelapse, the new one; the old timelapses of a
\* target are deleted only when its new timelapse has been made; and when
\* making it fails, the failure is reported and they are kept.
C39_OneTimelapse ==
    (call.fn = "process_observation_alerts" /\ call.done) =>
       LET ts == call.arg
           r == call.ret
           failing == {i \in 1..Len(ts) : ts[i].images /\ ts[i].fails}
       IN /\ (failing = {} /\ r.raised = "") =>
                \A i \in 1..Len(ts) : r.after[i].new = 1 /\ r.after[i].old = 0
          /\ \A i \in 1..Len(ts) :
                r.after[i].old < ts[i].old => r.after[i].new = 1
          /\ failing # {} =>
                /\ r.raised = ""
                /\ r.reported
                /\ \E i \in failing : r.after[i].old = ts[i].old

====
